---- MODULE Spec2Model ----
(***************************************************************************)
(* ICLR review analysis: the entity normaliser                             *)
(* (scripts/enrich_institutions_optimized.py, scripts/convert_data.py),    *)
(* the identity graph builder (scripts/convert_data.py) and the metric     *)
(* aggregation passes (scripts/run_affiliation_analysis.py,                *)
(* extral_analysis/anomaly_detection.py).                                  *)
(*                                                                         *)
(* Python strings are TLA+ strings; TLC evaluates Len, SubSeq and \o on    *)
(* them.  Python's None is the value None below.                           *)
(***************************************************************************)
EXTENDS Integers, Sequences, FiniteSets, TLC

\* ------------------------------------------------------------------------
\* Python values
\* ------------------------------------------------------------------------

\* Python's None (a value no input string equals)
None == "<None>"

\* "not x" for a str-or-None value
Falsy(x) == x = None \/ x = ""

\* "a or b" for str-or-None values
Or(a, b) == IF Falsy(a) THEN b ELSE a

CharAt(s, i) == SubSeq(s, i, i)

\* s[k:] with k counted from 0
From(s, k) == SubSeq(s, k + 1, Len(s))

\* sub occurs in s starting at position i (1-based)
At(s, i, sub) == /\ i >= 1
                 /\ i + Len(sub) - 1 <= Len(s)
                 /\ SubSeq(s, i, i + Len(sub) - 1) = sub

\* Python's "sub in s"
Contains(s, sub) == \E i \in 1..(Len(s) - Len(sub) + 1) : At(s, i, sub)

\* the first position >= i at which sub occurs in s, 0 when there is none
RECURSIVE FindFrom(_, _, _)
FindFrom(s, sub, i) ==
    IF i + Len(sub) - 1 > Len(s) THEN 0
    ELSE IF At(s, i, sub) THEN i
    ELSE FindFrom(s, sub, i + 1)

\* s.find(sub) as a 1-based position, 0 when absent
Find(s, sub) == FindFrom(s, sub, 1)

\* characters str.strip() removes
Whitespace == {" ", "\t", "\n", "\r"}

RECURSIVE LStrip(_)
LStrip(s) == IF s # "" /\ CharAt(s, 1) \in Whitespace THEN LStrip(From(s, 1)) ELSE s

RECURSIVE RStrip(_)
RStrip(s) == IF s # "" /\ CharAt(s, Len(s)) \in Whitespace
             THEN RStrip(SubSeq(s, 1, Len(s) - 1))
             ELSE s

\* str.strip()
Strip(s) == RStrip(LStrip(s))

\* str.replace(old, new): every non-overlapping occurrence, left to right
RECURSIVE Replace(_, _, _)
Replace(s, old, new) ==
    LET i == Find(s, old)
    IN  IF i = 0 THEN s
        ELSE SubSeq(s, 1, i - 1) \o new \o Replace(From(s, i + Len(old) - 1), old, new)

\* str.split(sep): the list of pieces between the occurrences of sep
RECURSIVE Split(_, _)
Split(s, sep) ==
    LET i == Find(s, sep)
    IN  IF i = 0 THEN <<s>>
        ELSE <<SubSeq(s, 1, i - 1)>> \o Split(From(s, i + Len(sep) - 1), sep)

UpperChars == "ABCDEFGHIJKLMNOPQRSTUVWXYZÄÖÜÉ"
LowerChars == "abcdefghijklmnopqrstuvwxyzäöüé"
Digits == "0123456789"

\* position of the one-character string c in the string chars, 0 when absent
IndexIn(chars, c) == Find(chars, c)

\* the characters of the string chars
CharsOf(chars) == {CharAt(chars, i) : i \in 1..Len(chars)}

\* the case mappings of single characters
LowerTable == [c \in CharsOf(UpperChars) |-> CharAt(LowerChars, IndexIn(UpperChars, c))]
UpperTable == [c \in CharsOf(LowerChars) |-> CharAt(UpperChars, IndexIn(LowerChars, c))]

LowerChar(c) == IF c \in DOMAIN LowerTable THEN LowerTable[c] ELSE c

UpperChar(c) == IF c \in DOMAIN UpperTable THEN UpperTable[c] ELSE c

\* str.lower()
RECURSIVE Lower(_)
Lower(s) == IF s = "" THEN "" ELSE LowerChar(CharAt(s, 1)) \o Lower(From(s, 1))

\* str.upper()
RECURSIVE Upper(_)
Upper(s) == IF s = "" THEN "" ELSE UpperChar(CharAt(s, 1)) \o Upper(From(s, 1))

\* the regex class \w
WordChars == CharsOf(UpperChars) \cup CharsOf(LowerChars) \cup CharsOf(Digits) \cup {"_"}

IsWordChar(c) == c \in WordChars

\* position i of s holds a \w character (positions off the string do not)
WordAt(s, i) == i >= 1 /\ i <= Len(s) /\ IsWordChar(CharAt(s, i))

\* the regex assertion \b between positions k and k+1 of s
Boundary(s, k) == WordAt(s, k) # WordAt(s, k + 1)

\* '.' does not match a newline and re.match anchors at the start: a pattern
\* ".*X.*" can only find X on the first line
FirstLine(s) == LET i == Find(s, "\n") IN IF i = 0 THEN s ELSE SubSeq(s, 1, i - 1)

\* ------------------------------------------------------------------------
\* normalize_institution (scripts/enrich_institutions_optimized.py)
\* ------------------------------------------------------------------------

\* the typo corrections, in the dict's order
typo_map ==
  << <<"Univeristy", "University">>,
     <<"Univeresity", "University">>,
     <<"Technolgy", "Technology">>,
     <<"Instiute", "Institute">>,
     <<"Institue", "Institute">>,
     <<"Sceince", "Science">>,
     <<"Schol", "School">>,
     <<"Guang Zhou", "Guangzhou">>,
     <<"Laboratpry", "Laboratory">>,
     <<"Loboratory", "Laboratory">> >>

\* the loop over typo_map, from entry k on
RECURSIVE FixTypos(_, _)
FixTypos(raw, k) ==
    IF k > Len(typo_map) THEN raw
    ELSE FixTypos(IF Contains(raw, typo_map[k][1])
                  THEN Replace(raw, typo_map[k][1], typo_map[k][2])
                  ELSE raw,
                  k + 1)

\* One alternative of a rule's regex "(?i).*ALT.*": literal parts separated
\* by ".*", with \b in front of the first part (lb) and behind the last one
\* (rb).  (?i) is modelled by comparing lower-cased text.
Alt(parts, lb, rb) ==
    [parts |-> [i \in DOMAIN parts |-> Lower(parts[i])], lb |-> lb, rb |-> rb]

\* a (regex, canonical name) entry of the rule list
Rule(alts, canon) == [alts |-> alts, canon |-> canon]

rules ==
  <<
    \* line 47: (?i).*Tsinghua-Berkeley.*
    Rule({Alt(<<"Tsinghua-Berkeley">>, FALSE, FALSE)},
         "Tsinghua University"),
    \* line 48: (?i).*Lawrence Berkeley.*
    Rule({Alt(<<"Lawrence Berkeley">>, FALSE, FALSE)},
         "Lawrence Berkeley National Laboratory"),
    \* line 49: (?i).*(UC Berkeley|University of California.*Berkeley).*
    Rule({Alt(<<"UC Berkeley">>, FALSE, FALSE),
        Alt(<<"University of California", "Berkeley">>, FALSE, FALSE)},
         "University of California, Berkeley"),
    \* line 52: (?i).*(HKUST|Hong Kong University of Science and Technology).*(Guangzhou|GZ).*
    Rule({Alt(<<"HKUST", "Guangzhou">>, FALSE, FALSE),
        Alt(<<"HKUST", "GZ">>, FALSE, FALSE),
        Alt(<<"Hong Kong University of Science and Technology", "Guangzhou">>, FALSE, FALSE),
        Alt(<<"Hong Kong University of Science and Technology", "GZ">>, FALSE, FALSE)},
         "Hong Kong University of Science and Technology (Guangzhou)"),
    \* line 53: (?i).*(HKUST|Hong Kong University of Science and Technology).*
    Rule({Alt(<<"HKUST">>, FALSE, FALSE),
        Alt(<<"Hong Kong University of Science and Technology">>, FALSE, FALSE)},
         "Hong Kong University of Science and Technology"),
    \* line 56: (?i).*(CUHK|Chinese University of Hong Kong).*(Shenzhen|SZ).*
    Rule({Alt(<<"CUHK", "Shenzhen">>, FALSE, FALSE),
        Alt(<<"CUHK", "SZ">>, FALSE, FALSE),
        Alt(<<"Chinese University of Hong Kong", "Shenzhen">>, FALSE, FALSE),
        Alt(<<"Chinese University of Hong Kong", "SZ">>, FALSE, FALSE)},
         "The Chinese University of Hong Kong, Shenzhen"),
    \* line 57: (?i).*(CUHK|Chinese University of Hong Kong).*
    Rule({Alt(<<"CUHK">>, FALSE, FALSE),
        Alt(<<"Chinese University of Hong Kong">>, FALSE, FALSE)},
         "The Chinese University of Hong Kong"),
    \* line 60: (?i).*(LMU|Ludwig-Maximilians).*
    Rule({Alt(<<"LMU">>, FALSE, FALSE),
        Alt(<<"Ludwig-Maximilians">>, FALSE, FALSE)},
         "Ludwig Maximilian University of Munich"),
    \* line 61: (?i).*(TUM|Technische Universität München|Technical University of Munich|TU Munich).*
    Rule({Alt(<<"TUM">>, FALSE, FALSE),
        Alt(<<"Technische Universität München">>, FALSE, FALSE),
        Alt(<<"Technical University of Munich">>, FALSE, FALSE),
        Alt(<<"TU Munich">>, FALSE, FALSE)},
         "Technical University of Munich"),
    \* line 62: (?i).*(KIT|Karlsruhe Institute of Technology).*
    Rule({Alt(<<"KIT">>, FALSE, FALSE),
        Alt(<<"Karlsruhe Institute of Technology">>, FALSE, FALSE)},
         "Karlsruhe Institute of Technology"),
    \* line 63: (?i).*(ETH|Swiss Federal Institute of Technology).*Zurich.*
    Rule({Alt(<<"ETH", "Zurich">>, FALSE, FALSE),
        Alt(<<"Swiss Federal Institute of Technology", "Zurich">>, FALSE, FALSE)},
         "ETH Zurich"),
    \* line 64: (?i).*ETH Zurich.*
    Rule({Alt(<<"ETH Zurich">>, FALSE, FALSE)},
         "ETH Zurich"),
    \* line 65: (?i).*(EPFL|Swiss Federal Institute of Technology).*Lausanne.*
    Rule({Alt(<<"EPFL", "Lausanne">>, FALSE, FALSE),
        Alt(<<"Swiss Federal Institute of Technology", "Lausanne">>, FALSE, FALSE)},
         "EPFL"),
    \* line 66: (?i).*Sorbonne.*
    Rule({Alt(<<"Sorbonne">>, FALSE, FALSE)},
         "Sorbonne University"),
    \* line 67: (?i).*Imperial College.*
    Rule({Alt(<<"Imperial College">>, FALSE, FALSE)},
         "Imperial College London"),
    \* line 68: (?i).*University College London.*
    Rule({Alt(<<"University College London">>, FALSE, FALSE)},
         "University College London"),
    \* line 71: (?i).*\b(CMU|Carnegie Mellon)\b.*
    Rule({Alt(<<"CMU">>, TRUE, TRUE),
        Alt(<<"Carnegie Mellon">>, TRUE, TRUE)},
         "Carnegie Mellon University"),
    \* line 72: (?i).*\b(MIT|Massachusetts Institute of Technology)\b.*
    Rule({Alt(<<"MIT">>, TRUE, TRUE),
        Alt(<<"Massachusetts Institute of Technology">>, TRUE, TRUE)},
         "Massachusetts Institute of Technology"),
    \* line 73: (?i).*\b(UIUC)\b.*
    Rule({Alt(<<"UIUC">>, TRUE, TRUE)},
         "University of Illinois Urbana-Champaign"),
    \* line 74: (?i).*University of Illinois.*Urbana.*Champaign.*
    Rule({Alt(<<"University of Illinois", "Urbana", "Champaign">>, FALSE, FALSE)},
         "University of Illinois Urbana-Champaign"),
    \* line 75: (?i).*\b(UCSD)\b.*
    Rule({Alt(<<"UCSD">>, TRUE, TRUE)},
         "University of California, San Diego"),
    \* line 76: (?i).*University of California.*San Diego.*
    Rule({Alt(<<"University of California", "San Diego">>, FALSE, FALSE)},
         "University of California, San Diego"),
    \* line 77: (?i).*\b(UCLA)\b.*
    Rule({Alt(<<"UCLA">>, TRUE, TRUE)},
         "University of California, Los Angeles"),
    \* line 78: (?i).*University of California.*Los Angeles.*
    Rule({Alt(<<"University of California", "Los Angeles">>, FALSE, FALSE)},
         "University of California, Los Angeles"),
    \* line 79: (?i).*\b(USC)\b.*
    Rule({Alt(<<"USC">>, TRUE, TRUE)},
         "University of Southern California"),
    \* line 80: (?i).*University of Southern California.*
    Rule({Alt(<<"University of Southern California">>, FALSE, FALSE)},
         "University of Southern California"),
    \* line 81: (?i).*\b(NYU)\b.*
    Rule({Alt(<<"NYU">>, TRUE, TRUE)},
         "New York University"),
    \* line 82: (?i).*New York University.*
    Rule({Alt(<<"New York University">>, FALSE, FALSE)},
         "New York University"),
    \* line 83: (?i).*\b(Georgia Tech)\b.*
    Rule({Alt(<<"Georgia Tech">>, TRUE, TRUE)},
         "Georgia Institute of Technology"),
    \* line 84: (?i).*Georgia Institute of Technology.*
    Rule({Alt(<<"Georgia Institute of Technology">>, FALSE, FALSE)},
         "Georgia Institute of Technology"),
    \* line 85: (?i).*\b(UW)\b.*
    Rule({Alt(<<"UW">>, TRUE, TRUE)},
         "University of Washington"),
    \* line 86: (?i).*University of Washington.*
    Rule({Alt(<<"University of Washington">>, FALSE, FALSE)},
         "University of Washington"),
    \* line 87: (?i).*\b(Caltech)\b.*
    Rule({Alt(<<"Caltech">>, TRUE, TRUE)},
         "California Institute of Technology"),
    \* line 88: (?i).*California Institute of Technology.*
    Rule({Alt(<<"California Institute of Technology">>, FALSE, FALSE)},
         "California Institute of Technology"),
    \* line 89: (?i).*\b(UT Austin)\b.*
    Rule({Alt(<<"UT Austin">>, TRUE, TRUE)},
         "University of Texas at Austin"),
    \* line 90: (?i).*University of Texas at Austin.*
    Rule({Alt(<<"University of Texas at Austin">>, FALSE, FALSE)},
         "University of Texas at Austin"),
    \* line 91: (?i).*\b(UMich)\b.*
    Rule({Alt(<<"UMich">>, TRUE, TRUE)},
         "University of Michigan"),
    \* line 92: (?i).*University of Michigan.*
    Rule({Alt(<<"University of Michigan">>, FALSE, FALSE)},
         "University of Michigan"),
    \* line 93: (?i).*Johns Hopkins.*
    Rule({Alt(<<"Johns Hopkins">>, FALSE, FALSE)},
         "Johns Hopkins University"),
    \* line 94: (?i).*Stanford.*
    Rule({Alt(<<"Stanford">>, FALSE, FALSE)},
         "Stanford University"),
    \* line 95: (?i).*Princeton.*
    Rule({Alt(<<"Princeton">>, FALSE, FALSE)},
         "Princeton University"),
    \* line 96: (?i).*Harvard.*
    Rule({Alt(<<"Harvard">>, FALSE, FALSE)},
         "Harvard University"),
    \* line 97: (?i).*Yale.*
    Rule({Alt(<<"Yale">>, FALSE, FALSE)},
         "Yale University"),
    \* line 98: (?i).*Cornell.*
    Rule({Alt(<<"Cornell">>, FALSE, FALSE)},
         "Cornell University"),
    \* line 99: (?i).*Columbia University.*
    Rule({Alt(<<"Columbia University">>, FALSE, FALSE)},
         "Columbia University"),
    \* line 102: (?i).*\b(Tsinghua|THU)\b.*
    Rule({Alt(<<"Tsinghua">>, TRUE, TRUE),
        Alt(<<"THU">>, TRUE, TRUE)},
         "Tsinghua University"),
    \* line 103: (?i).*\b(Peking University|PKU)\b.*
    Rule({Alt(<<"Peking University">>, TRUE, TRUE),
        Alt(<<"PKU">>, TRUE, TRUE)},
         "Peking University"),
    \* line 104: (?i).*(SJTU|Shanghai Jiao.*Tong).*
    Rule({Alt(<<"SJTU">>, FALSE, FALSE),
        Alt(<<"Shanghai Jiao", "Tong">>, FALSE, FALSE)},
         "Shanghai Jiao Tong University"),
    \* line 105: (?i).*\b(Fudan)\b.*
    Rule({Alt(<<"Fudan">>, TRUE, TRUE)},
         "Fudan University"),
    \* line 106: (?i).*(Zhejiang University|ZJU).*
    Rule({Alt(<<"Zhejiang University">>, FALSE, FALSE),
        Alt(<<"ZJU">>, FALSE, FALSE)},
         "Zhejiang University"),
    \* line 107: (?i).*(USTC|University of Science and Technology of China).*
    Rule({Alt(<<"USTC">>, FALSE, FALSE),
        Alt(<<"University of Science and Technology of China">>, FALSE, FALSE)},
         "University of Science and Technology of China"),
    \* line 108: (?i).*(Nanjing University|NJU).*
    Rule({Alt(<<"Nanjing University">>, FALSE, FALSE),
        Alt(<<"NJU">>, FALSE, FALSE)},
         "Nanjing University"),
    \* line 109: (?i).*(Sun Yat-sen|SYSU).*
    Rule({Alt(<<"Sun Yat-sen">>, FALSE, FALSE),
        Alt(<<"SYSU">>, FALSE, FALSE)},
         "Sun Yat-sen University"),
    \* line 110: (?i).*(Harbin Institute of Technology|HIT).*
    Rule({Alt(<<"Harbin Institute of Technology">>, FALSE, FALSE),
        Alt(<<"HIT">>, FALSE, FALSE)},
         "Harbin Institute of Technology"),
    \* line 111: (?i).*(Beihang|Beijing University of Aeronautics).*
    Rule({Alt(<<"Beihang">>, FALSE, FALSE),
        Alt(<<"Beijing University of Aeronautics">>, FALSE, FALSE)},
         "Beihang University"),
    \* line 112: (?i).*(UCAS|University of Chinese Academy of Sciences).*
    Rule({Alt(<<"UCAS">>, FALSE, FALSE),
        Alt(<<"University of Chinese Academy of Sciences">>, FALSE, FALSE)},
         "University of Chinese Academy of Sciences"),
    \* line 114: (?i).*(Chinese Academy of Sciences|CAS\b|Institute of Automation.*CAS|Institute of Computing.*CAS).*
    Rule({Alt(<<"Chinese Academy of Sciences">>, FALSE, FALSE),
        Alt(<<"CAS">>, FALSE, TRUE),
        Alt(<<"Institute of Automation", "CAS">>, FALSE, FALSE),
        Alt(<<"Institute of Computing", "CAS">>, FALSE, FALSE)},
         "Chinese Academy of Sciences"),
    \* line 117: (?i).*(KAIST|Korea Advanced Institute).*
    Rule({Alt(<<"KAIST">>, FALSE, FALSE),
        Alt(<<"Korea Advanced Institute">>, FALSE, FALSE)},
         "Korea Advanced Institute of Science and Technology"),
    \* line 118: (?i).*(SNU|Seoul National University).*
    Rule({Alt(<<"SNU">>, FALSE, FALSE),
        Alt(<<"Seoul National University">>, FALSE, FALSE)},
         "Seoul National University"),
    \* line 119: (?i).*(POSTECH|Pohang University).*
    Rule({Alt(<<"POSTECH">>, FALSE, FALSE),
        Alt(<<"Pohang University">>, FALSE, FALSE)},
         "Pohang University of Science and Technology"),
    \* line 120: (?i).*\b(NUS)\b.*
    Rule({Alt(<<"NUS">>, TRUE, TRUE)},
         "National University of Singapore"),
    \* line 121: (?i).*National University of Singapore.*
    Rule({Alt(<<"National University of Singapore">>, FALSE, FALSE)},
         "National University of Singapore"),
    \* line 122: (?i).*\b(NTU)\b.*
    Rule({Alt(<<"NTU">>, TRUE, TRUE)},
         "Nanyang Technological University"),
    \* line 123: (?i).*Nanyang Technological University.*
    Rule({Alt(<<"Nanyang Technological University">>, FALSE, FALSE)},
         "Nanyang Technological University"),
    \* line 124: (?i).*University of Tokyo.*
    Rule({Alt(<<"University of Tokyo">>, FALSE, FALSE)},
         "The University of Tokyo"),
    \* line 128: (?i).*\b(Google|DeepMind)\b.*
    Rule({Alt(<<"Google">>, TRUE, TRUE),
        Alt(<<"DeepMind">>, TRUE, TRUE)},
         "Google DeepMind"),
    \* line 129: (?i).*\b(Meta|Facebook)\b.*
    Rule({Alt(<<"Meta">>, TRUE, TRUE),
        Alt(<<"Facebook">>, TRUE, TRUE)},
         "Meta"),
    \* line 130: (?i).*\b(Microsoft|Msft)\b.*
    Rule({Alt(<<"Microsoft">>, TRUE, TRUE),
        Alt(<<"Msft">>, TRUE, TRUE)},
         "Microsoft"),
    \* line 131: (?i).*\b(NVIDIA)\b.*
    Rule({Alt(<<"NVIDIA">>, TRUE, TRUE)},
         "NVIDIA"),
    \* line 132: (?i).*\b(ByteDance|TikTok)\b.*
    Rule({Alt(<<"ByteDance">>, TRUE, TRUE),
        Alt(<<"TikTok">>, TRUE, TRUE)},
         "ByteDance"),
    \* line 133: (?i).*\b(Tencent)\b.*
    Rule({Alt(<<"Tencent">>, TRUE, TRUE)},
         "Tencent"),
    \* line 134: (?i).*\b(Alibaba)\b.*
    Rule({Alt(<<"Alibaba">>, TRUE, TRUE)},
         "Alibaba Group"),
    \* line 135: (?i).*\b(Baidu)\b.*
    Rule({Alt(<<"Baidu">>, TRUE, TRUE)},
         "Baidu"),
    \* line 136: (?i).*\b(Huawei)\b.*
    Rule({Alt(<<"Huawei">>, TRUE, TRUE)},
         "Huawei Technologies"),
    \* line 137: (?i).*\b(Amazon|AWS)\b.*
    Rule({Alt(<<"Amazon">>, TRUE, TRUE),
        Alt(<<"AWS">>, TRUE, TRUE)},
         "Amazon"),
    \* line 138: (?i).*\b(Apple)\b.*
    Rule({Alt(<<"Apple">>, TRUE, TRUE)},
         "Apple"),
    \* line 139: (?i).*\b(Adobe)\b.*
    Rule({Alt(<<"Adobe">>, TRUE, TRUE)},
         "Adobe"),
    \* line 140: (?i).*\b(Samsung)\b.*
    Rule({Alt(<<"Samsung">>, TRUE, TRUE)},
         "Samsung"),
    \* line 141: (?i).*\b(Sony)\b.*
    Rule({Alt(<<"Sony">>, TRUE, TRUE)},
         "Sony"),
    \* line 142: (?i).*\b(Uber)\b.*
    Rule({Alt(<<"Uber">>, TRUE, TRUE)},
         "Uber"),
    \* line 143: (?i).*\b(OpenAI)\b.*
    Rule({Alt(<<"OpenAI">>, TRUE, TRUE)},
         "OpenAI"),
    \* line 144: (?i).*\b(Salesforce)\b.*
    Rule({Alt(<<"Salesforce">>, TRUE, TRUE)},
         "Salesforce"),
    \* line 145: (?i).*\b(IBM)\b.*
    Rule({Alt(<<"IBM">>, TRUE, TRUE)},
         "IBM"),
    \* line 146: (?i).*\b(Intel)\b.*
    Rule({Alt(<<"Intel">>, TRUE, TRUE)},
         "Intel"),
    \* line 147: (?i).*\b(Qualcomm)\b.*
    Rule({Alt(<<"Qualcomm">>, TRUE, TRUE)},
         "Qualcomm")
  >>

\* the parts of an alternative occur in s in order, the first at or after k
RECURSIVE MatchFrom(_, _, _, _)
MatchFrom(s, parts, k, rb) ==
    \E i \in k..Len(s) :
        /\ At(s, i, parts[1])
        /\ IF Len(parts) = 1
           THEN rb => Boundary(s, i + Len(parts[1]) - 1)
           ELSE MatchFrom(s, Tail(parts), i + Len(parts[1]), rb)

AltMatches(s, alt) ==
    \E i \in 1..Len(s) :
        /\ At(s, i, alt.parts[1])
        /\ alt.lb => Boundary(s, i - 1)
        /\ IF Len(alt.parts) = 1
           THEN alt.rb => Boundary(s, i + Len(alt.parts[1]) - 1)
           ELSE MatchFrom(s, Tail(alt.parts), i + Len(alt.parts[1]), alt.rb)

\* the indices of the rules whose pattern matches raw
MatchingRules(raw) ==
    LET s == Lower(FirstLine(raw))
    IN  {k \in DOMAIN rules : \E alt \in rules[k].alts : AltMatches(s, alt)}

\* a loop that keeps the last matching rule instead of returning at the first
last_match(raw) ==
    LET hits == MatchingRules(raw)
    IN  IF hits = {} THEN 0 ELSE CHOOSE k \in hits : \A j \in hits : j <= k

\* "for pattern, replacement in rules: if re.match(pattern, raw): return":
\* the index of the first rule that matches, 0 when none does
first_match(raw) ==
    LET hits == MatchingRules(raw)
    IN  IF hits = {} THEN 0 ELSE CHOOSE k \in hits : \A j \in hits : k <= j

\* keywords of the fallback's re.search, lower-cased for re.IGNORECASE
FallbackKeywords == {"university", "college", "institute", "lab", "inc", "corp"}

LooksInstitutional(p) == \E kw \in FallbackKeywords : Contains(Lower(p), kw)

\* "for part in reversed(parts)": the last segment, stripped, that looks
\* institutional; else parts[-1].strip()
comma_fallback(raw) ==
    LET parts == Split(raw, ",")
        hits  == {k \in DOMAIN parts : LooksInstitutional(Strip(parts[k]))}
    IN  IF hits # {}
        THEN Strip(parts[CHOOSE k \in hits : \A j \in hits : j <= k])
        ELSE Strip(parts[Len(parts)])

\* lines 21-38: the name stripped, with '&' spelled out and the typos fixed
clean_raw(name) == FixTypos(Replace(Strip(name), "&", " and "), 1)

normalize_institution(name) ==
    IF Falsy(name) THEN None
    ELSE IF Replace(Strip(name), "&", " and ") = "" THEN None
    ELSE LET raw == clean_raw(name)
             k   == first_match(raw)
         IN  IF k # 0 THEN rules[k].canon
             ELSE IF Contains(raw, ",") THEN comma_fallback(raw)
             ELSE raw

\* ------------------------------------------------------------------------
\* normalize_country, infer_country_for_institution, infer_institution_type
\* (scripts/convert_data.py)
\* ------------------------------------------------------------------------

UNIV_KEYWORDS ==
  << "university", "universität", "universite", "université", "uni ", "uni-",
     "tech", "technological", "technology", "polytechnic", "college", "institute",
     "inst", "école", "ecole", "schule", "academy", "campus", "facoltà", "faculty",
     "eth zurich", "e.t.h", "epfl", "lmu", "lmu munich", "ludwig-maximilians",
     "berkeley", "mit", "harvard", "stanford", "oxford", "cambridge" >>

COMPANY_KEYWORDS ==
  << "inc", "corp", "co.", "co ", "ltd", "gmbh",
     \* the two CJK keywords, written as code points (the lexer is Latin-1)
     "U+6709U+9650U+8D23U+4EFB", "U+516CU+53F8",
     "google", "deepmind", "meta", "facebook", "microsoft", "nvidia", "bytedance",
     "tiktok", "tencent", "kuaishou", "alibaba", "baidu", "huawei", "amazon", "aws",
     "apple", "adobe", "samsung", "sony", "uber", "openai", "salesforce", "ibm",
     "intel", "qualcomm", "tesla", "telecom" >>

COUNTRY_CODE_MAP ==
  << <<"US", "United States">>,
     <<"USA", "United States">>,
     <<"U.S", "United States">>,
     <<"U.S.", "United States">>,
     <<"UK", "United Kingdom">>,
     <<"GB", "United Kingdom">>,
     <<"GBR", "United Kingdom">>,
     <<"CN", "China">>,
     <<"CHN", "China">>,
     <<"HK", "China">>,
     <<"MO", "China">>,
     <<"KR", "South Korea">>,
     <<"DE", "Germany">>,
     <<"FR", "France">>,
     <<"CA", "Canada">>,
     <<"SG", "Singapore">>,
     <<"AU", "Australia">>,
     <<"JP", "Japan">>,
     <<"IN", "India">>,
     <<"ES", "Spain">>,
     <<"SE", "Sweden">>,
     <<"NL", "Netherlands">>,
     <<"BR", "Brazil">>,
     <<"CH", "Switzerland">> >>

INSTITUTION_COUNTRY_OVERRIDES ==
  << <<"bytedance", "China">>,
     <<"harbin institute of technology", "China">> >>

\* "key in table" for a table of (key, value) pairs
HasKey(table, key) == \E k \in DOMAIN table : table[k][1] = key

\* table[key]
Lookup(table, key) == table[CHOOSE k \in DOMAIN table : table[k][1] = key][2]

normalize_country(country) ==
    IF Falsy(country) THEN "Unknown"
    ELSE LET c     == Strip(country)
             upper == Upper(c)
         IN  IF HasKey(COUNTRY_CODE_MAP, upper) THEN Lookup(COUNTRY_CODE_MAP, upper)
             ELSE IF upper \in {"HONG KONG", "HONG KONG SAR"} THEN "China"
             ELSE IF upper \in {"MACAU", "MACAO", "MACAU SAR"} THEN "China"
             ELSE c

infer_country_for_institution(name, fallback_country) ==
    IF Falsy(name) THEN Or(fallback_country, "Unknown")
    ELSE LET lower_name == Lower(name)
             hits == {k \in DOMAIN INSTITUTION_COUNTRY_OVERRIDES :
                         Contains(lower_name, INSTITUTION_COUNTRY_OVERRIDES[k][1])}
         IN  IF hits # {}
             THEN INSTITUTION_COUNTRY_OVERRIDES[CHOOSE k \in hits : \A j \in hits : k <= j][2]
             ELSE Or(fallback_country, "Unknown")

infer_institution_type(name) ==
    IF Falsy(name) THEN None
    ELSE LET lower == Lower(name)
         IN  IF \E k \in DOMAIN UNIV_KEYWORDS : Contains(lower, UNIV_KEYWORDS[k])
             THEN "University"
             ELSE IF \E k \in DOMAIN COMPANY_KEYWORDS : Contains(lower, COMPANY_KEYWORDS[k])
             THEN "Company"
             ELSE "Other"

\* ------------------------------------------------------------------------
\* The normaliser applied to bounded inputs
\* ------------------------------------------------------------------------

\* an input is the concatenation of at most MaxFrags fragments
MaxFrags == 2

InstFragments ==
    {" ", ",", "&", "A", "HKUST", "Guang Zhou", "CUHK", "Shenzhen", " UCAS",
     "Tsinghua", "-Berkeley", "Intel", "ligent", "Whitman College", "MIT"}

CountryFragments == {" ", "cn", "Hong Kong", "France", "Unknown"}

RECURSIVE Concats(_, _)
Concats(frags, n) ==
    IF n = 0 THEN {""}
    ELSE LET shorter == Concats(frags, n - 1)
         IN  shorter \cup {s \o f : s \in shorter, f \in frags}

NormInputs == Concats(InstFragments, MaxFrags) \cup Concats(CountryFragments, MaxFrags) \cup {None}

\* a result that has not been computed yet
Pending == "<pending>"

\* ------------------------------------------------------------------------
\* The identity graph builder: process_person and the conversion loop
\* (scripts/convert_data.py)
\* ------------------------------------------------------------------------

\* the empty dict
EmptyMap == [x \in {} |-> None]

\* an absent (null) JSON number
NoNum == -1

\* str.replace on a person id, for the default display name
default_name(pid) == Replace(Replace(pid, "~", ""), "_", " ")

\* the two roles process_person is called with, in sorted() order
RoleOrder == <<"author", "reviewer">>

\* ",".join(sorted(r for r in existing_roles if r))
join_roles(roles) ==
    LET present == SelectSeq(RoleOrder, LAMBDA r : r \in roles)
    IN  IF present = <<>> THEN ""
        ELSE IF Len(present) = 1 THEN present[1]
        ELSE present[1] \o "," \o present[2]

\* a merge that keeps only the latest sighting's role
replace_role(stored, role) == role

\* lines 131-133: the stored role string with role added
merge_role(stored, role) ==
    LET pieces == IF Falsy(stored) THEN <<>> ELSE Split(stored, ",")
        existing_roles == {pieces[k] : k \in DOMAIN pieces} \cup {role}
    IN  join_roles({r \in existing_roles : r # ""})

\* lines 137-139: append inst_name unless it is already listed
merge_institutions(inst_list, inst_name) ==
    IF \E k \in DOMAIN inst_list : inst_list[k] = inst_name
    THEN inst_list
    ELSE Append(inst_list, inst_name)

\* lines 141-142: the placeholder primary institution is upgraded
merge_primary(stored, inst_name) ==
    IF stored = "Unknown Institution" THEN inst_name ELSE stored

\* a merge that always takes the latest sighting's country
overwrite_nationality(stored, country_val) == country_val

\* lines 145-146: nationality moves from "Unknown" to a value, never back
merge_nationality(stored, country_val) ==
    IF stored = "Unknown" /\ country_val # "Unknown" THEN country_val ELSE stored

\* a merge that always takes the latest sighting's country
overwrite_institution_country(stored, inferred_country) == inferred_country

\* lines 160-161: an institution's country is filled once
merge_institution_country(stored, inferred_country) ==
    IF stored = "Unknown" /\ inferred_country # "Unknown" THEN inferred_country ELSE stored

\* f with key k (added or replaced) mapped to v
Put(f, k, v) == [x \in DOMAIN f \cup {k} |-> IF x = k THEN v ELSE f[x]]

\* person_obj.get('institution') or 'Unknown Institution'
inst_name_of(person_obj) == Or(person_obj.institution, "Unknown Institution")

\* process_person, part 1: the people table after the call
process_person_people(ppl, person_obj, role) ==
    LET pid         == person_obj.id
        inst_name   == inst_name_of(person_obj)
        country_val == normalize_country(person_obj.country)
        known_inst  == ~Falsy(inst_name) /\ inst_name # "Unknown Institution"
    IN  IF Falsy(pid) THEN ppl
        ELSE IF pid \notin DOMAIN ppl
        THEN Put(ppl, pid,
                 [name            |-> Or(person_obj.name, default_name(pid)),
                  nationality     |-> country_val,
                  institution     |-> inst_name,
                  institutions    |-> IF known_inst THEN <<inst_name>> ELSE <<>>,
                  gender          |-> "Unknown",
                  role            |-> role,
                  authored_papers |-> <<>>,
                  reviewed_papers |-> <<>>])
        ELSE LET old == ppl[pid]
             IN  Put(ppl, pid,
                     [old EXCEPT
                        !.role         = merge_role(old.role, role),
                        !.institutions = IF known_inst
                                         THEN merge_institutions(old.institutions, inst_name)
                                         ELSE old.institutions,
                        !.institution  = IF known_inst
                                         THEN merge_primary(old.institution, inst_name)
                                         ELSE old.institution,
                        !.nationality  = merge_nationality(old.nationality, country_val)])

\* process_person, part 2: the institution table after the call
process_person_institutions(imap, person_obj) ==
    LET pid         == person_obj.id
        inst_name   == inst_name_of(person_obj)
        country_val == normalize_country(person_obj.country)
    IN  IF Falsy(pid) THEN imap
        ELSE IF ~Falsy(inst_name) /\ inst_name # "Unknown Institution"
        THEN LET inferred_country == infer_country_for_institution(inst_name, country_val)
             IN  IF inst_name \notin DOMAIN imap
                 THEN Put(imap, inst_name,
                          [institution_name |-> inst_name,
                           country          |-> inferred_country,
                           institution_type |-> infer_institution_type(inst_name)])
                 ELSE Put(imap, inst_name,
                          [imap[inst_name] EXCEPT
                             !.country = merge_institution_country(@, inferred_country)])
        ELSE imap

\* the digits of a non-negative number: str(n)
RECURSIVE Str(_)
Str(n) == IF n < 10 THEN CharAt(Digits, n + 1)
          ELSE Str(n \div 10) \o CharAt(Digits, (n % 10) + 1)

IsDigits(s) == s # "" /\ \A i \in 1..Len(s) : IndexIn(Digits, CharAt(s, i)) # 0

\* int(s) for a string of digits
RECURSIVE ParseInt(_)
ParseInt(s) == IF s = "" THEN 0
          ELSE 10 * ParseInt(SubSeq(s, 1, Len(s) - 1)) + (IndexIn(Digits, CharAt(s, Len(s))) - 1)

\* lines 177-182: submission_number, else the number behind 'Submission'
\* in the id; NoNum when neither is there (int() raised ValueError)
submission_number_of(number, id) ==
    IF number = NoNum /\ ~Falsy(id)
    THEN LET pieces == Split(id, "Submission")
             last   == pieces[Len(pieces)]
         IN  IF IsDigits(last) THEN ParseInt(last) ELSE NoNum
    ELSE number

\* lines 208-212: the placeholder id of a review without reviewer id
synthetic_reviewer_id(review) ==
    IF ~Falsy(review.signature) /\ Contains(review.signature, "Reviewer_")
    THEN "anonymous_reviewer_" \o Split(review.signature, "Reviewer_")[2]
    ELSE "anonymous_reviewer_" \o (IF review.id = None THEN "None" ELSE review.id)

\* lines 204-214: the reviewer id and the profile handed to process_person
reviewer_profile_of(review) ==
    LET profile == review.reviewer_profile
    IN  IF Falsy(profile.id)
        THEN [id          |-> synthetic_reviewer_id(review),
              name        |-> None,
              institution |-> "Unknown Institution",
              country     |-> "Unknown"]
        ELSE profile

\* bounds of the conversion run
MaxLines == 2
MaxAuthors == 2
MaxReviews == 2
\* process_person calls in one run
MaxPersonCalls == 3

\* (institution, country) under which the first person is sighted
Affiliations ==
    { <<None, None>>, <<"Massachusetts Institute of Technology", None>>,
      <<"MIT", "cn">>, <<"MIT", "France">>, <<"ByteDance", "France">> }

\* "review.get('reviewer_profile') or {}" of a review without profile; also
\* an author entry without id
NoProfile == [id |-> None, name |-> None, institution |-> None, country |-> None]

\* the author entries of the input
PersonObjs ==
    { [id |-> "~Ann_Lee1", name |-> None, institution |-> a[1], country |-> a[2]] :
        a \in Affiliations }
    \cup { [id |-> "~Bo_Wu2", name |-> "Bo Wu", institution |-> "MIT", country |-> None],
           NoProfile }

\* the reviews of submission sub without reviewer id: one signed by the
\* submission's anonymous reviewer x7, one unsigned, one without even a
\* review id (the fields of a review that the conversion only copies are
\* left out)
AnonymousReviews(sub) ==
    { [id |-> "r" \o Str(sub) \o "a", reviewer_profile |-> NoProfile,
       signature |-> "Conf/Submission" \o Str(sub) \o "/Reviewer_x7"],
      [id |-> "r" \o Str(sub) \o "b", reviewer_profile |-> NoProfile, signature |-> None],
      [id |-> None, reviewer_profile |-> NoProfile, signature |-> None] }

\* the reviews of submission sub: the anonymous ones and two with a profile
ReviewObjs(sub) ==
    AnonymousReviews(sub)
    \cup { [id |-> "r" \o Str(sub) \o "c", signature |-> None, reviewer_profile |->
              [id |-> "~Ann_Lee1", name |-> None, institution |-> a[1], country |-> a[2]]] :
            a \in { <<None, None>>, <<"ByteDance", "cn">> } }

SubmissionNumbers == {NoNum, 0, 1}
SubmissionIds == {None, "Conf/Submission2", "Conf/Paper"}

\* ------------------------------------------------------------------------
\* The metric aggregation passes: aggregate
\* (scripts/run_affiliation_analysis.py) and the collection loops of
\* detect_reviewer_anomalies and detect_submission_anomalies
\* (extral_analysis/anomaly_detection.py)
\* ------------------------------------------------------------------------

\* the character class [.,;:/\\-] of normalize_inst_name
Separators == {".", ",", ";", ":", "/", "\\", "-"}

\* re.sub(r"[.,;:/\\-]+", " ", s): every run of separators becomes one space
RECURSIVE sub_separators(_)
sub_separators(s) ==
    IF s = "" THEN ""
    ELSE IF CharAt(s, 1) \in Separators
    THEN LET rest == From(s, 1)
         IN  IF rest # "" /\ CharAt(rest, 1) \in Separators
             THEN sub_separators(rest)
             ELSE " " \o sub_separators(rest)
    ELSE CharAt(s, 1) \o sub_separators(From(s, 1))

\* the length of the run of the character c at the head of s
RECURSIVE RunLength(_, _)
RunLength(s, c) == IF s # "" /\ CharAt(s, 1) = c THEN 1 + RunLength(From(s, 1), c) ELSE 0

\* re.sub(r"\\s+", " ", s): the regex is a backslash followed by one or more
\* letters s, and each such match becomes one space
RECURSIVE sub_backslash_s(_)
sub_backslash_s(s) ==
    IF s = "" THEN ""
    ELSE LET n == RunLength(From(s, 1), "s")
         IN  IF CharAt(s, 1) = "\\" /\ n > 0
             THEN " " \o sub_backslash_s(From(s, 1 + n))
             ELSE CharAt(s, 1) \o sub_backslash_s(From(s, 1))

normalize_inst_name(name) ==
    IF Falsy(name) THEN "unknown"
    ELSE LET cleaned == Strip(sub_backslash_s(sub_separators(Lower(name))))
         IN  Or(cleaned, "unknown")

\* len(re.findall(r"\\w+", text)): the regex is a backslash followed by one
\* or more letters w
RECURSIVE count_words(_)
count_words(text) ==
    IF Falsy(text) THEN 0
    ELSE LET n == RunLength(From(text, 1), "w")
         IN  IF CharAt(text, 1) = "\\" /\ n > 0
             THEN 1 + count_words(From(text, 1 + n))
             ELSE count_words(From(text, 1))

\* ensure_inst without counts: the lookup after the call
ensure_inst(inst_map, name, country, inst_type) ==
    LET norm  == normalize_inst_name(name)
        entry == IF norm \in DOMAIN inst_map THEN inst_map[norm]
                 ELSE [canonical_name   |-> Or(name, "Unknown"),
                       country          |-> country,
                       institution_type |-> inst_type]
    IN  Put(inst_map, norm,
            [entry EXCEPT
               !.institution_type = IF ~Falsy(inst_type) /\ Falsy(@) THEN inst_type ELSE @,
               !.country          = IF ~Falsy(country) /\ Falsy(@) THEN country ELSE @])

\* build_inst_lookup: the loop over the institutions document, from entry k on
RECURSIVE build_inst_lookup(_, _, _)
build_inst_lookup(institutions_raw, k, inst_map) ==
    IF k > Len(institutions_raw) THEN inst_map
    ELSE build_inst_lookup(institutions_raw, k + 1,
                           ensure_inst(inst_map,
                                       institutions_raw[k].institution_name,
                                       institutions_raw[k].country,
                                       institutions_raw[k].institution_type))

\* lines 109-112: the institution names a person entry lists
listed_institutions(pdata) ==
    IF pdata.institutions = <<>> /\ ~Falsy(pdata.institution)
    THEN <<pdata.institution>>
    ELSE pdata.institutions

\* lines 113-131: the normalised institutions of one person
person_norm_list(pdata) ==
    LET insts == listed_institutions(pdata)
    IN  IF insts = <<>> THEN <<"unknown">>
        ELSE [k \in DOMAIN insts |-> normalize_inst_name(insts[k])]

\* lines 114-128: the lookup after ensure_inst on every listed institution
RECURSIVE ensure_all(_, _, _)
ensure_all(inst_map, insts, k) ==
    IF k > Len(insts) THEN inst_map
    ELSE ensure_all(ensure_inst(inst_map, insts[k], None, None), insts, k + 1)

\* build_person_insts: the loop over the people document (keys in pids order)
RECURSIVE build_person_insts_map(_, _, _, _)
build_person_insts_map(ppl, pids, k, inst_map) ==
    IF k > Len(pids) THEN inst_map
    ELSE build_person_insts_map(ppl, pids, k + 1,
                                ensure_all(inst_map, listed_institutions(ppl[pids[k]]), 1))

\* build_submission_authors: the ids, in document order, of the people whose
\* authored_papers list sub (once per occurrence)
RECURSIVE Occurrences(_, _)
Occurrences(papers, sub) ==
    IF papers = <<>> THEN 0
    ELSE (IF Str(Head(papers)) = sub THEN 1 ELSE 0) + Occurrences(Tail(papers), sub)

RECURSIVE Repeat(_, _)
Repeat(x, n) == IF n = 0 THEN <<>> ELSE <<x>> \o Repeat(x, n - 1)

RECURSIVE submission_authors_of(_, _, _, _)
submission_authors_of(ppl, pids, k, sub) ==
    IF k > Len(pids) THEN <<>>
    ELSE Repeat(pids[k], Occurrences(ppl[pids[k]].authored_papers, sub))
         \o submission_authors_of(ppl, pids, k + 1, sub)

\* the elements of a list, as a set
Range(seq) == {seq[k] : k \in DOMAIN seq}

\* lines 184-189: the institutions of the authors of submission sub_id
author_inst_set_of(ppl, pids, sub_id) ==
    LET authors == submission_authors_of(ppl, pids, 1, sub_id)
        insts == UNION {Range(person_norm_list(ppl[aid])) : aid \in Range(authors)}
    IN  IF insts = {} THEN {"unknown"} ELSE insts

\* f[k] of a defaultdict: the default when k has no entry yet
Get(f, k, default) == IF k \in DOMAIN f THEN f[k] ELSE default

NewMetrics == [ratings |-> <<>>, confidences |-> <<>>, text_words |-> <<>>,
               question_words |-> <<>>]

NewAuthorMetrics == [ratings |-> <<>>, confidences |-> <<>>, review_count |-> 0,
                     submission_count |-> 0]

NewFlow == [count |-> 0, ratings |-> <<>>]

\* lines 211-214 and 219-222: one review appended to a bucket
add_review(m, rating, confidence, text_words, question_words) ==
    [ratings        |-> Append(m.ratings, rating),
     confidences    |-> Append(m.confidences, confidence),
     text_words     |-> Append(m.text_words, text_words),
     question_words |-> Append(m.question_words, question_words)]

\* the loop "for inst in reviewer_insts", from entry k on
RECURSIVE fold_reviewer_insts(_, _, _, _, _, _, _)
fold_reviewer_insts(metrics, insts, k, rating, confidence, text_words, question_words) ==
    IF k > Len(insts) THEN metrics
    ELSE fold_reviewer_insts(
             Put(metrics, insts[k],
                 add_review(Get(metrics, insts[k], NewMetrics),
                            rating, confidence, text_words, question_words)),
             insts, k + 1, rating, confidence, text_words, question_words)

\* the loop over the pairs (rinst, ainst), reviewer institutions from k on
RECURSIVE fold_flows(_, _, _, _, _)
fold_flows(flows, insts, k, author_inst_set, rating) ==
    IF k > Len(insts) THEN flows
    ELSE LET touched == {<<insts[k], ainst>> : ainst \in author_inst_set}
             after == [p \in DOMAIN flows \cup touched |->
                         IF p \in touched
                         THEN [count   |-> Get(flows, p, NewFlow).count + 1,
                               ratings |-> Append(Get(flows, p, NewFlow).ratings, rating)]
                         ELSE flows[p]]
         IN  fold_flows(after, insts, k + 1, author_inst_set, rating)

\* line 193: the bucket key of a review
reviewer_key(rev) == Or(rev.reviewer_id, "unknown")

\* the section texts of a review
section_words(content) ==
    count_words(content.summary) + count_words(content.strengths)
    + count_words(content.weaknesses) + count_words(content.questions)

\* lines 191-240: the aggregate's accumulators after one review; acc also
\* carries the two per-submission lists
fold_review(acc, rev, person_insts, author_inst_set) ==
    LET reviewer_id    == reviewer_key(rev)
        rating         == rev.rating
        confidence     == rev.confidence
        text_words     == section_words(rev.content)
        question_words == count_words(rev.content.questions)
        found          == Get(person_insts, reviewer_id, <<"unknown">>)
        reviewer_insts == IF found = <<>> THEN <<"unknown">> ELSE found
    IN  [reviewer_metrics |->
             Put(acc.reviewer_metrics, reviewer_id,
                 add_review(Get(acc.reviewer_metrics, reviewer_id, NewMetrics),
                            rating, confidence, text_words, question_words)),
         inst_reviewer_metrics |->
             fold_reviewer_insts(acc.inst_reviewer_metrics, reviewer_insts, 1,
                                 rating, confidence, text_words, question_words),
         inst_author_metrics |->
             [ainst \in DOMAIN acc.inst_author_metrics \cup author_inst_set |->
                LET ia == Get(acc.inst_author_metrics, ainst, NewAuthorMetrics)
                IN  IF ainst \in author_inst_set
                    THEN [ia EXCEPT !.ratings = Append(@, rating),
                                    !.confidences = Append(@, confidence),
                                    !.review_count = @ + 1]
                    ELSE ia],
         flows |-> fold_flows(acc.flows, reviewer_insts, 1, author_inst_set, rating),
         submission_diversity |-> acc.submission_diversity,
         missing_reviewer_inst |->
             acc.missing_reviewer_inst + (IF found = <<>> THEN 1 ELSE 0),
         total_reviews |-> acc.total_reviews + 1,
         reviewer_insts_for_sub |-> acc.reviewer_insts_for_sub \o reviewer_insts,
         ratings_for_sub |->
             IF rating # NoNum THEN Append(acc.ratings_for_sub, rating)
             ELSE acc.ratings_for_sub]

\* the loop "for rev in reviews", from review k on
RECURSIVE fold_reviews(_, _, _, _, _)
fold_reviews(acc, reviews, k, person_insts, author_inst_set) ==
    IF k > Len(reviews) THEN acc
    ELSE fold_reviews(fold_review(acc, reviews[k], person_insts, author_inst_set),
                      reviews, k + 1, person_insts, author_inst_set)

\* how often x occurs in a list
RECURSIVE CountOf(_, _)
CountOf(seq, x) ==
    IF seq = <<>> THEN 0
    ELSE (IF Head(seq) = x THEN 1 ELSE 0) + CountOf(Tail(seq), x)

\* lines 243-253: the diversity entry of a submission (the share
\* max(counts)/total is kept as its two terms, and rating_std as the ratings
\* it is the deviation of)
diversity_entry(sub_id, reviews, reviewer_insts_for_sub, ratings_for_sub) ==
    LET insts == Range(reviewer_insts_for_sub)
        top1  == CHOOSE n \in {CountOf(reviewer_insts_for_sub, i) : i \in insts} :
                    \A i \in insts : CountOf(reviewer_insts_for_sub, i) <= n
    IN  [submission_number            |-> sub_id,
         review_count                 |-> Len(reviews),
         unique_reviewer_institutions |-> Cardinality(insts),
         top1_count                   |-> top1,
         top1_total                   |-> Len(reviewer_insts_for_sub),
         ratings                      |-> ratings_for_sub]

\* lines 179-257: the accumulators after one submission of the reviews document
aggregate_submission(acc, sub_id, reviews, person_insts, author_inst_set) ==
    LET start  == [acc EXCEPT !.reviewer_insts_for_sub = <<>>, !.ratings_for_sub = <<>>]
        folded == fold_reviews(start, reviews, 1, person_insts, author_inst_set)
        withDiversity ==
            IF reviews # <<>>
            THEN [folded EXCEPT !.submission_diversity =
                     Put(@, sub_id,
                         diversity_entry(sub_id, reviews, folded.reviewer_insts_for_sub,
                                         folded.ratings_for_sub))]
            ELSE folded
        counted == withDiversity.inst_author_metrics
    IN  [withDiversity EXCEPT
           !.inst_author_metrics =
               [ainst \in DOMAIN counted \cup author_inst_set |->
                  LET ia == Get(counted, ainst, NewAuthorMetrics)
                  IN  IF ainst \in author_inst_set
                      THEN [ia EXCEPT !.submission_count = @ + 1]
                      ELSE ia],
           !.reviewer_insts_for_sub = <<>>,
           !.ratings_for_sub = <<>>]

\* len(text) if text else 0
text_len(text) == IF Falsy(text) THEN 0 ELSE Len(text)

\* anomaly_detection.py lines 80-84
total_len(content) ==
    text_len(content.summary) + text_len(content.strengths)
    + text_len(content.weaknesses) + text_len(content.questions)

\* anomaly_detection.py lines 87-95
content_quality(content) ==
    (IF text_len(content.summary) > 50 THEN 1 ELSE 0)
    + (IF text_len(content.strengths) > 30 THEN 1 ELSE 0)
    + (IF text_len(content.weaknesses) > 30 THEN 1 ELSE 0)
    + (IF text_len(content.questions) > 20 THEN 1 ELSE 0)

NewReviewerStats == [ratings |-> <<>>, confidences |-> <<>>, text_lengths |-> <<>>,
                     review_count |-> 0, submission_numbers |-> <<>>,
                     content_quality |-> <<>>]

\* anomaly_detection.py lines 70-105: reviewer_stats after the reviews of one
\* submission, from review k on
RECURSIVE collect_reviewer_stats(_, _, _, _)
collect_reviewer_stats(stats, submission_num, reviews, k) ==
    IF k > Len(reviews) THEN stats
    ELSE LET review == reviews[k]
             reviewer_id == review.reviewer_id
             old == Get(stats, reviewer_id, NewReviewerStats)
         IN  IF Falsy(reviewer_id)
             THEN collect_reviewer_stats(stats, submission_num, reviews, k + 1)
             ELSE collect_reviewer_stats(
                    Put(stats, reviewer_id,
                        [ratings |-> IF review.rating # NoNum
                                     THEN Append(old.ratings, review.rating)
                                     ELSE old.ratings,
                         confidences |-> IF review.confidence # NoNum
                                         THEN Append(old.confidences, review.confidence)
                                         ELSE old.confidences,
                         text_lengths |-> Append(old.text_lengths, total_len(review.content)),
                         review_count |-> old.review_count + 1,
                         submission_numbers |->
                             Append(old.submission_numbers, ParseInt(submission_num)),
                         content_quality |->
                             Append(old.content_quality, content_quality(review.content))]),
                    submission_num, reviews, k + 1)

\* the values of a field of the reviews that are present
present_values(reviews, field) ==
    LET vals == [k \in DOMAIN reviews |-> reviews[k][field]]
    IN  SelectSeq(vals, LAMBDA v : v # NoNum)

\* anomaly_detection.py lines 253-289: submission_stats after one submission
\* (the means and the deviation are kept as the lists they are taken over)
collect_submission_stats(stats, submission_num, reviews) ==
    LET ratings == present_values(reviews, "rating")
    IN  IF ratings # <<>>
        THEN Put(stats, submission_num,
                 [num_reviews  |-> Len(reviews),
                  ratings      |-> ratings,
                  confidences  |-> present_values(reviews, "confidence"),
                  text_lengths |-> [k \in DOMAIN reviews |-> total_len(reviews[k].content)]])
        ELSE stats

\* bounds of the reviews document: its submissions, and its reviews in all
MaxDocSubs == 2
MaxDocReviews == 3

LongSummary == "This paper studies a clear problem and gives sound evidence."

NoContent == [summary |-> None, strengths |-> None, weaknesses |-> None, questions |-> None]

FullContent == [summary |-> LongSummary, strengths |-> "Clear.", weaknesses |-> "",
                questions |-> "Why \\w here?"]

\* a long review whose summary is null
NullSummary == [summary |-> None, strengths |-> LongSummary, weaknesses |-> "Clear.",
                questions |-> None]

\* the review entries of the reviews document: a reviewer with two
\* institutions, a reviewer with none, a review without reviewer id, and a
\* review with a null section
ReviewEntries ==
    { [review_id |-> "r1", reviewer_id |-> "~Ann_Lee1", rating |-> 8, confidence |-> 4,
       content |-> FullContent],
      [review_id |-> "r2", reviewer_id |-> "~Bo_Wu2", rating |-> 2, confidence |-> NoNum,
       content |-> NoContent],
      [review_id |-> "r3", reviewer_id |-> None, rating |-> 6, confidence |-> 3,
       content |-> FullContent],
      [review_id |-> "r4", reviewer_id |-> "~Bo_Wu2", rating |-> 4, confidence |-> 2,
       content |-> NullSummary] }

\* the lists of exactly n elements of S
SeqsOfLen(S, n) == [1..n -> S]

\* the lists of n review lists that hold at most budget reviews together
RECURSIVE ReviewLists(_, _)
ReviewLists(n, budget) ==
    IF n = 0 THEN {<<>>}
    ELSE UNION { { <<first>> \o rest : rest \in ReviewLists(n - 1, budget - Len(first)) } :
                    first \in UNION {SeqsOfLen(ReviewEntries, m) : m \in 0..budget} }

\* the reviews documents: submissions "1", "2", ... in the order of the keys
ReviewsDocs ==
    { [k \in DOMAIN lists |-> [sub_id |-> Str(k), reviews |-> lists[k]]] :
        lists \in UNION {ReviewLists(n, MaxDocReviews) : n \in 0..MaxDocSubs} }

EmptyPeopleDoc == [pids |-> <<>>, people |-> EmptyMap]

\* a people document: a reviewer with two institutions, a reviewer with
\* none, and the author of submission 1
SmallPeopleDoc ==
    [pids |-> <<"~Ann_Lee1", "~Bo_Wu2", "~Cy_Au3">>,
     people |->
        [p \in {"~Ann_Lee1", "~Bo_Wu2", "~Cy_Au3"} |->
           IF p = "~Ann_Lee1"
           THEN [institutions |-> <<"MIT", "ByteDance">>, institution |-> "MIT",
                 nationality |-> "China", role |-> "reviewer",
                 authored_papers |-> <<>>]
           ELSE IF p = "~Bo_Wu2"
           THEN [institutions |-> <<>>, institution |-> "Unknown Institution",
                 nationality |-> "Unknown", role |-> "reviewer",
                 authored_papers |-> <<>>]
           ELSE [institutions |-> <<"MIT">>, institution |-> "MIT",
                 nationality |-> "France", role |-> "author",
                 authored_papers |-> <<1>>]]]

\* the same people, the first reviewer's institutions listed in three
\* spellings of which two are one institution
RespelledPeopleDoc ==
    [SmallPeopleDoc EXCEPT !.people["~Ann_Lee1"].institutions = <<"MIT", "ByteDance", "mit">>]

PeopleDocs == {EmptyPeopleDoc, SmallPeopleDoc, RespelledPeopleDoc}

\* the institutions document
InstitutionsDoc ==
    << [institution_name |-> "MIT", country |-> "United States",
        institution_type |-> "University"],
       [institution_name |-> "ByteDance", country |-> "China",
        institution_type |-> "Company"] >>

Scripts == {"run_affiliation_analysis", "anomaly_detection"}


\* ------------------------------------------------------------------------
\* diversity_analysis.py and geographical_analysis.py: categories and panels
\* ------------------------------------------------------------------------

\* lines 168-174 (the same table in geographical_analysis.py, lines 387-393):
\* the cultural clusters, in the order of the dict
cultural_groups ==
    << [culture |-> "East_Asian",
        countries |-> {"China", "South Korea", "Japan", "Taiwan", "Singapore"}],
       [culture |-> "Western",
        countries |-> {"United States", "Canada", "United Kingdom", "Australia",
                       "Germany", "France", "Netherlands"}],
       [culture |-> "South_Asian", countries |-> {"India", "Pakistan", "Bangladesh"}],
       [culture |-> "European",
        countries |-> {"Germany", "France", "Netherlands", "United Kingdom", "Italy",
                       "Spain"}],
       [culture |-> "Middle_Eastern", countries |-> {"Iran", "Israel", "Turkey"}] >>

\* the clusters that list a country, as positions in cultural_groups
clusters_listing(country) ==
    {k \in DOMAIN cultural_groups : country \in cultural_groups[k].countries}

\* lines 177-180 and 190: country_to_culture is filled cluster by cluster, a
\* later cluster overwriting an earlier one; a country in no cluster is "Other"
country_to_culture(nationality) ==
    LET listing == clusters_listing(nationality)
    IN  IF listing = {} THEN "Other"
        ELSE cultural_groups[CHOOSE k \in listing : \A j \in listing : j <= k].culture

\* geographical_analysis.py lines 395-399, 408-412: the first cluster that
\* lists the country (the loop breaks), None if there is none
cultural_group_of(country) ==
    LET listing == clusters_listing(country)
    IN  IF listing = {} THEN None
        ELSE cultural_groups[CHOOSE k \in listing : \A j \in listing : k <= j].culture

\* lines 296-300: the type of an institution of the institutions document
institution_type_of(inst_name) ==
    IF Contains(inst_name, "University") \/ Contains(inst_name, "College")
    THEN "University" ELSE "Company"

\* lines 56-60, 185-191, 305-314: the reviewers of the people document and
\* their category under one of the three analyses
reviewer_category_map(analysis, people_data, institutions_data) ==
    LET reviewers == {p \in DOMAIN people_data :
                         \E k \in DOMAIN people_data[p].roles :
                             people_data[p].roles[k] = "reviewer"}
        kept == IF analysis = "institutional"
                THEN {p \in reviewers : people_data[p].affiliations # <<>>}
                ELSE reviewers
    IN  [p \in kept |->
            IF analysis = "gender" THEN people_data[p].gender
            ELSE IF analysis = "cultural" THEN country_to_culture(people_data[p].nationality)
            ELSE LET inst_name == people_data[p].affiliations[1].institution
                 IN  IF inst_name \in institutions_data
                     THEN institution_type_of(inst_name) ELSE "Unknown"]

\* the category that counts as not known: "Other" for cultures, "Unknown"
\* for genders and institution types (lines 114-115, 244-245, 369-370)
unknown_category(analysis) == IF analysis = "cultural" THEN "Other" ELSE "Unknown"

\* lines 84-88, 213-217, 338-342: the categories of the reviews of one
\* submission whose reviewer is in the map, in the order of the reviews
RECURSIVE panel_categories(_, _, _)
panel_categories(reviews, k, category_map) ==
    IF k > Len(reviews) THEN <<>>
    ELSE LET reviewer_id == reviews[k].reviewer_id
             rest        == panel_categories(reviews, k + 1, category_map)
         IN  IF ~Falsy(reviewer_id) /\ reviewer_id \in DOMAIN category_map
             THEN <<category_map[reviewer_id]>> \o rest
             ELSE rest

\* lines 113-128, 243-258, 368-383: the diversity entries written for a
\* submission, one or none; the score is kept as the fraction
\* unique / max(total_known, 1)
submission_diversity_of(reviewer_categories, unknown) ==
    LET known       == SelectSeq(reviewer_categories, LAMBDA c : c # unknown)
        unique      == Cardinality({known[k] : k \in DOMAIN known})
        total_known == Len(known)
    IN  IF Len(reviewer_categories) >= 2 /\ total_known > 0
        THEN << [diversity_score     |-> <<unique, IF total_known > 1 THEN total_known ELSE 1>>,
                 reviewer_categories |-> reviewer_categories,
                 num_reviewers       |-> Len(reviewer_categories)] >>
        ELSE <<>>

\* lines 107-108, 237-238, 362-363: review_count of the categories after the
\* reviews of one submission
RECURSIVE count_categories(_, _, _)
count_categories(review_data, reviewer_categories, k) ==
    IF k > Len(reviewer_categories) THEN review_data
    ELSE count_categories(
             Put(review_data, reviewer_categories[k],
                 Get(review_data, reviewer_categories[k], 0) + 1),
             reviewer_categories, k + 1)

\* bounds of the reviews document of the diversity analyses: its submissions,
\* and its reviews in all
MaxDivSubs == 2
MaxDivReviews == 3

\* self.people_data['people']: four reviewers; the second has no known
\* gender, a country of no cluster and an institution the institutions
\* document does not have, the last lists no affiliation
people_data ==
    [p \in {"~Ann_Lee1", "~Bo_Wu2", "~Cy_Au3", "~Di_Ng4"} |->
       IF p = "~Ann_Lee1"
       THEN [gender |-> "Female", nationality |-> "China", roles |-> <<"reviewer">>,
             affiliations |-> <<[institution |-> "Tsinghua University"]>>]
       ELSE IF p = "~Bo_Wu2"
       THEN [gender |-> "Unknown", nationality |-> "Brazil",
             roles |-> <<"author", "reviewer">>,
             affiliations |-> <<[institution |-> "Nowhere Labs"]>>]
       ELSE IF p = "~Cy_Au3"
       THEN [gender |-> "Male", nationality |-> "Germany", roles |-> <<"reviewer">>,
             affiliations |-> <<[institution |-> "ByteDance"]>>]
       ELSE [gender |-> "Female", nationality |-> "Japan", roles |-> <<"reviewer">>,
             affiliations |-> <<>>]]

\* the names of self.institutions_data['institutions']
institutions_data == {"Tsinghua University", "ByteDance"}

\* the reviews of the document, as far as the diversity analyses read them:
\* by one of the four reviewers or without reviewer id
DivReviewEntries ==
    { [reviewer_id |-> r] : r \in DOMAIN people_data \cup {None} }

\* the lists of n review lists that hold at most budget reviews together
RECURSIVE DivReviewLists(_, _)
DivReviewLists(n, budget) ==
    IF n = 0 THEN {<<>>}
    ELSE UNION { { <<first>> \o rest : rest \in DivReviewLists(n - 1, budget - Len(first)) } :
                    first \in UNION {SeqsOfLen(DivReviewEntries, m) : m \in 0..budget} }

\* the reviews documents: submissions "1", "2", ... in the order of the keys
DivReviewsDocs ==
    { [k \in DOMAIN lists |-> [sub_id |-> Str(k), reviews |-> lists[k]]] :
        lists \in UNION {DivReviewLists(n, MaxDivReviews) : n \in 0..MaxDivSubs} }

DiversityAnalyses == {"gender", "cultural", "institutional"}

\* the countries of _analyze_cultural_distance: the reviewer's and the keys of
\* target_ratings
DistanceCountries == {"Germany", "Italy", "United States", "China", "Brazil"}

\* ------------------------------------------------------------------------
\* run_affiliation_analysis.py and geographical_analysis.py: rankings
\* ------------------------------------------------------------------------

\* sorted(items, key=..., reverse=...): keys[i] is the key of items[i]; the
\* sort is stable, also with reverse=True, so that items of equal key keep
\* the order they came in
sorted(items, keys, reverse) ==
    LET Before(i, j) == IF keys[i] = keys[j] THEN i < j
                        ELSE IF reverse THEN keys[i] > keys[j] ELSE keys[i] < keys[j]
        place(i) == 1 + Cardinality({j \in DOMAIN items : Before(j, i)})
    IN  [p \in DOMAIN items |-> items[CHOOSE i \in DOMAIN items : place(i) = p]]

\* seq[:limit]
Take(seq, limit) == SubSeq(seq, 1, IF Len(seq) < limit THEN Len(seq) ELSE limit)

\* select_top, lines 352-361 (an absent number is NoNum)
select_top(items, key, reverse, limit, min_count_key, min_count) ==
    LET filtered == SelectSeq(items, LAMBDA it : /\ ~(it[min_count_key] < min_count)
                                                 /\ it[key] # NoNum)
    IN  Take(sorted(filtered, [k \in DOMAIN filtered |-> filtered[k][key]], reverse), limit)

\* build_rankings, lines 364-393: the two rankings by the reviewer-side
\* average rating (the other rankings are select_top calls of the same form
\* on the other fields)
build_rankings(metrics) ==
    LET items == [k \in DOMAIN metrics |->
                    [institution  |-> metrics[k].institution,
                     avg_rating   |-> metrics[k].reviewer_side.avg_rating,
                     review_count |-> metrics[k].reviewer_side.review_count]]
    IN  [lenient_institutions |-> select_top(items, "avg_rating", TRUE, 200, "review_count", 3),
         strict_institutions  |-> select_top(items, "avg_rating", FALSE, 200, "review_count", 3)]

\* create_geographical_rankings, lines 505-532: the countries with at least
\* 20 reviewers, ranked by size and by strictness (the other leaderboards
\* sort the same list by another score)
create_geographical_rankings(profiles) ==
    LET qualified_countries ==
            SelectSeq(profiles, LAMBDA profile : profile.academic_scale.num_reviewers >= 20)
        by_size   == [k \in DOMAIN qualified_countries |->
                         qualified_countries[k].academic_scale.num_reviewers]
        by_strict == [k \in DOMAIN qualified_countries |->
                         qualified_countries[k].country_scores.strictness_score]
    IN  [largest_academic_communities |-> Take(sorted(qualified_countries, by_size, TRUE), 20),
         most_strict  |-> Take(sorted(qualified_countries, by_strict, TRUE), 15),
         most_lenient |-> Take(sorted(qualified_countries, by_strict, FALSE), 15)]

\* the length of the list of entities handed to a ranking
MaxRanked == 3

\* the entities of a ranking, in ascending order of their identifiers
RankedIds(script) ==
    IF script = "geographical_analysis" THEN <<"Brazil", "China", "France", "Japan">>
    ELSE <<"eth", "kaist", "mit", "ucl">>

\* the lists of at most MaxRanked different entities
RankedLists(script) ==
    LET all == RankedIds(script)
    IN  { ids \in UNION { [1..n -> {all[k] : k \in DOMAIN all}] : n \in 0..MaxRanked } :
            \A i \in DOMAIN ids, j \in DOMAIN ids : ids[i] = ids[j] => i = j }

\* reviewer-side figures of an institution: few reviews, no rating, and
\* two cases of the same average rating from different numbers of reviews,
\* one of them of an institution with a single reviewer
InstFigures ==
    { [reviewer_count |-> 25, avg_rating |-> 5, review_count |-> 2],
      [reviewer_count |-> 20, avg_rating |-> NoNum, review_count |-> 0],
      [reviewer_count |-> 1, avg_rating |-> 6, review_count |-> 3],
      [reviewer_count |-> 25, avg_rating |-> 6, review_count |-> 40] }

\* the lists finalize_inst_metrics can return
InstMetricsLists ==
    UNION { { [k \in DOMAIN ids |->
                 [institution    |-> ids[k],
                  reviewer_count |-> figs[k].reviewer_count,
                  reviewer_side  |-> [avg_rating   |-> figs[k].avg_rating,
                                      review_count |-> figs[k].review_count]]] :
              figs \in [DOMAIN ids -> InstFigures] } :
            ids \in RankedLists("run_affiliation_analysis") }

\* figures of a country: below and at the threshold of 20 reviewers, and
\* equal strictness from different numbers of reviewers
CountryFigures ==
    { [num_reviewers |-> 19, strictness_score |-> 7],
      [num_reviewers |-> 20, strictness_score |-> 7],
      [num_reviewers |-> 25, strictness_score |-> 7],
      [num_reviewers |-> 25, strictness_score |-> 3] }

\* country_profiles.values(), in the order of the dict
CountryProfileLists ==
    UNION { { [k \in DOMAIN ids |->
                 [country        |-> ids[k],
                  academic_scale |-> [num_reviewers |-> figs[k].num_reviewers],
                  country_scores |-> [strictness_score |-> figs[k].strictness_score]]] :
              figs \in [DOMAIN ids -> CountryFigures] } :
            ids \in RankedLists("geographical_analysis") }

\* ------------------------------------------------------------------------
\* anomaly_detection.py: detect_content_anomalies
\* ------------------------------------------------------------------------

\* hash(text) of a str: a keyed hash whose key the interpreter draws when the
\* process starts; the value is kept as the pair of key and text (equal
\* texts hash equal in one process, and a text hashes differently under
\* another key)
hash(text, hash_key) == <<hash_key, text>>

\* lines 547-548: the reviews of the document in the order of the two loops,
\* each with its submission number and its index in the submission
RECURSIVE enumerate_reviews(_, _)
enumerate_reviews(doc, s) ==
    IF s > Len(doc) THEN <<>>
    ELSE [i \in DOMAIN doc[s].reviews |->
             [submission_num |-> ParseInt(doc[s].sub_id),
              reviewer_id    |-> doc[s].reviews[i].reviewer_id,
              review_index   |-> i - 1,
              content        |-> doc[s].reviews[i].content,
              total_length   |-> total_len(doc[s].reviews[i].content)]]
         \o enumerate_reviews(doc, s + 1)

\* lines 601-607: the important sections of a review that are empty
missing_sections_of(content) ==
    SelectSeq(<<"summary", "strengths", "weaknesses">>,
              LAMBDA section : text_len(content[section]) = 0)

\* line 618: summary + strengths + weaknesses raises TypeError when one of
\* the three is None
concat_raises(content) ==
    \E section \in {"summary", "strengths", "weaknesses"} : content[section] = None

\* lines 616-632: the duplicate_content entries: the hashed reviews (those
\* of more than 50 characters) grouped by the hash of their text, in the
\* order in which the hashes first occur
duplicate_content_of(hashed, hash_key) ==
    LET HashOf(k) == hash(hashed[k].text, hash_key)
        indices  == [k \in DOMAIN hashed |-> k]
        firsts   == SelectSeq(indices, LAMBDA k : \A j \in 1..(k - 1) : HashOf(j) # HashOf(k))
        Group(k) == SelectSeq(indices, LAMBDA j : HashOf(j) = HashOf(k))
        repeated == SelectSeq(firsts, LAMBDA k : Len(Group(k)) > 1)
    IN  [g \in DOMAIN repeated |->
            [duplicate_count |-> Len(Group(repeated[g])),
             reviews         |-> [j \in DOMAIN Group(repeated[g]) |->
                                     hashed[Group(repeated[g])[j]].info],
             content_hash    |-> HashOf(repeated[g])]]

\* detect_content_anomalies, lines 526-662: what the call leaves: the
\* exception that ends it, or the content_anomalies it stores (of the
\* statistics the counts; the means are left out)
detect_content_anomalies(doc, hash_key) ==
    LET all     == enumerate_reviews(doc, 1)
        Info(r) == [submission_num |-> r.submission_num, reviewer_id |-> r.reviewer_id,
                    review_index |-> r.review_index, total_length |-> r.total_length]
        Short(r) == [submission_num |-> r.submission_num, reviewer_id |-> r.reviewer_id,
                     review_index |-> r.review_index, total_length |-> r.total_length,
                     summary_len |-> text_len(r.content.summary),
                     strengths_len |-> text_len(r.content.strengths),
                     weaknesses_len |-> text_len(r.content.weaknesses)]
        Missing(r) == [submission_num |-> r.submission_num, reviewer_id |-> r.reviewer_id,
                       review_index |-> r.review_index,
                       missing_sections |-> missing_sections_of(r.content),
                       total_length |-> r.total_length]
        Hashed(r) == [info |-> Info(r),
                      text |-> r.content.summary \o r.content.strengths \o r.content.weaknesses]
        Each(seq, Entry(_)) == [k \in DOMAIN seq |-> Entry(seq[k])]
        ByLength(seq) == Take(sorted(seq, [k \in DOMAIN seq |-> seq[k].total_length], FALSE), 20)
        hashed  == SelectSeq(all, LAMBDA r : r.total_length > 50)
    IN  IF \E k \in DOMAIN hashed : concat_raises(hashed[k].content)
        THEN [raised |-> "TypeError", content_anomalies |-> EmptyMap]
        ELSE IF Len(all) = 0
        THEN [raised |-> "ZeroDivisionError", content_anomalies |-> EmptyMap]
        ELSE [raised |-> None,
              content_anomalies |->
                [anomalous_content |->
                   [empty_content     |-> Each(SelectSeq(all, LAMBDA r : r.total_length = 0), Info),
                    extremely_short   |-> ByLength(Each(SelectSeq(all,
                                             LAMBDA r : r.total_length > 0 /\ r.total_length < 100),
                                             Short)),
                    extremely_long    |-> ByLength(Each(SelectSeq(all,
                                             LAMBDA r : r.total_length > 10000), Info)),
                    missing_sections  |-> ByLength(Each(SelectSeq(all,
                                             LAMBDA r : Len(missing_sections_of(r.content)) >= 2),
                                             Missing)),
                    duplicate_content |-> duplicate_content_of(Each(hashed, Hashed), hash_key)],
                 content_statistics |->
                   [total_reviews |-> Len(all),
                    zero_count    |->
                       [section \in {"summary", "strengths", "weaknesses", "questions"} |->
                           Len(SelectSeq(all, LAMBDA r : text_len(r.content[section]) = 0))]]]]

\* the runs of the anomaly detector on one document
MaxRuns == 2

\* the keys the interpreter can draw for hash()
HashKeys == {1, 2}

\* ------------------------------------------------------------------------
\* geographical_analysis.py: GeographicalAnalyzer
\* ------------------------------------------------------------------------

\* __init__, lines 32-40: the entry the defaultdict makes for a new country
new_country_entry ==
    [reviewers |-> {}, authors |-> {}, institutions |-> {}, reviews |-> <<>>,
     ratings |-> <<>>, confidences |-> <<>>, text_lengths |-> <<>>]

\* the people of a role, lines 53-63: role in person_data.get('roles', [])
has_role(people, p, role) ==
    LET roles == Get(people[p], "roles", <<>>)
    IN  \E k \in DOMAIN roles : roles[k] = role

\* diversity_analysis.py lines 310-313: the institutions the analyzers take
\* as a person's affiliations: person_data.get('affiliations', [])
affiliations_of(person_data) ==
    LET affiliations == Get(person_data, "affiliations", <<>>)
    IN  [k \in DOMAIN affiliations |-> affiliations[k].institution]

\* lines 67-97: the review records of the document that are counted, those
\* of a known reviewer, in the order of the two loops
RECURSIVE counted_reviews(_, _, _)
counted_reviews(doc, s, people) ==
    IF s > Len(doc) THEN <<>>
    ELSE LET counted == SelectSeq(doc[s].reviews,
                            LAMBDA review : /\ ~Falsy(review.reviewer_id)
                                            /\ review.reviewer_id \in DOMAIN people
                                            /\ has_role(people, review.reviewer_id, "reviewer"))
         IN  [i \in DOMAIN counted |->
                 [country |-> people[counted[i].reviewer_id].nationality,
                  record  |-> [submission_number |-> ParseInt(doc[s].sub_id),
                               review_id   |-> counted[i].review_id,
                               reviewer_id |-> counted[i].reviewer_id,
                               rating      |-> counted[i].rating,
                               confidence  |-> counted[i].confidence,
                               text_length |-> total_len(counted[i].content)]]]
             \o counted_reviews(doc, s + 1, people)

\* analyze_country_characteristics, lines 44-114: self.country_data after the
\* call, from self.country_data before it: people are added to the sets of
\* their country, the review records are appended to its lists, the
\* institutions are added to the set of theirs
analyze_country_characteristics(data, people, doc, institutions) ==
    LET Entry(c)  == IF c \in DOMAIN data THEN data[c] ELSE new_country_entry
        counted   == counted_reviews(doc, 1, people)
        Of(c)     == SelectSeq(counted, LAMBDA r : r.country = c)
        Known(field, c) == SelectSeq(Of(c), LAMBDA r : r.record[field] # NoNum)
        countries == DOMAIN data
                     \cup {people[p].nationality : p \in DOMAIN people}
                     \cup ({institutions[k].country : k \in DOMAIN institutions} \ {"Unknown"})
    IN  [c \in countries |->
            [reviewers    |-> Entry(c).reviewers
                              \cup {p \in DOMAIN people : /\ people[p].nationality = c
                                                          /\ has_role(people, p, "reviewer")},
             authors      |-> Entry(c).authors
                              \cup {p \in DOMAIN people : /\ people[p].nationality = c
                                                          /\ has_role(people, p, "author")},
             institutions |-> Entry(c).institutions
                              \cup {institutions[k].institution_name :
                                      k \in {j \in DOMAIN institutions :
                                               /\ institutions[j].country = c
                                               /\ c # "Unknown"}},
             reviews      |-> Entry(c).reviews \o [k \in DOMAIN Of(c) |-> Of(c)[k].record],
             ratings      |-> Entry(c).ratings
                              \o [k \in DOMAIN Known("rating", c) |->
                                     Known("rating", c)[k].record.rating],
             confidences  |-> Entry(c).confidences
                              \o [k \in DOMAIN Known("confidence", c) |->
                                     Known("confidence", c)[k].record.confidence],
             text_lengths |-> Entry(c).text_lengths
                              \o [k \in DOMAIN Of(c) |-> Of(c)[k].record.text_length]]]

\* calculate_country_metrics, lines 116-192: the profiles of the countries
\* with at least 5 reviews; of a profile the counts of academic_scale
calculate_country_metrics(data) ==
    [c \in {x \in DOMAIN data : Len(data[x].reviews) >= 5} |->
        [country |-> c,
         academic_scale |-> [num_reviewers    |-> Cardinality(data[c].reviewers),
                             num_authors      |-> Cardinality(data[c].authors),
                             num_institutions |-> Cardinality(data[c].institutions),
                             total_reviews    |-> Len(data[c].reviews)]]]

\* the invocations of the geographical analysis on one analyzer object
MaxInvocations == 2

\* ------------------------------------------------------------------------
\* anomaly_detection.py: detect_reviewer_anomalies, the detection stage
\* ------------------------------------------------------------------------

\* sum(values); np.mean(values) is Sum(values) / Len(values), kept as the
\* two integers
RECURSIVE Sum(_)
Sum(values) == IF values = <<>> THEN 0 ELSE Head(values) + Sum(Tail(values))

\* lines 125-129: the lists of all reviewers, concatenated
RECURSIVE extend_all(_, _)
extend_all(stats, field) ==
    IF stats = <<>> THEN <<>> ELSE Head(stats)[field] \o extend_all(Tail(stats), field)

\* own_sum / own_n - np.mean(all) > k * np.std(all) for side "above", the
\* opposite difference for "below", the absolute difference for "either",
\* with k = k_num / k_den: in integers, D / (own_n N) being the difference
\* and V / N^2 the population variance. With all empty the mean is nan and
\* the comparison false.
mean_beyond(own_sum, own_n, all, k_num, k_den, side) ==
    LET N == Len(all)
        D == own_sum * N - Sum(all) * own_n
        V == N * Sum([k \in DOMAIN all |-> all[k] * all[k]]) - Sum(all) * Sum(all)
    IN  /\ N > 0
        /\ side = "above" => D > 0
        /\ side = "below" => D < 0
        /\ k_den * k_den * D * D > k_num * k_num * own_n * own_n * V

\* lines 141-143: the average the detection uses, as sum and count: 0 when
\* the reviewer has no value
avg_or_zero(values) ==
    IF values = <<>> THEN [sum |-> 0, n |-> 1] ELSE [sum |-> Sum(values), n |-> Len(values)]

\* line 142: np.std(ratings) > 2.5, the std being 0 for fewer than 2 ratings
rating_std_above(ratings) ==
    /\ Len(ratings) > 1
    /\ 4 * (Len(ratings) * Sum([k \in DOMAIN ratings |-> ratings[k] * ratings[k]])
            - Sum(ratings) * Sum(ratings)) > 25 * Len(ratings) * Len(ratings)

\* line 152: round(abs(avg_rating - global_rating_mean), 2), in hundredths
deviation_of(ratings, all_ratings) ==
    LET avg == avg_or_zero(ratings)
        D   == avg.sum * Len(all_ratings) - Sum(all_ratings) * avg.n
        den == avg.n * Len(all_ratings)
    IN  (200 * (IF D < 0 THEN -D ELSE D) + den) \div (2 * den)

\* lines 199-206: max_z_score > 3. zscore([avg_rating], ddof=0) and
\* zscore([avg_confidence], ddof=0) are taken over a sample of the one value,
\* (x - x) / 0, which is nan; max() keeps a nan that stands first, and
\* nan > 3 is false. So the test is the one on the text length, and only for
\* a reviewer without ratings and confidences.
is_outlier(reviewer, all_text_lengths) ==
    /\ reviewer.ratings = <<>>
    /\ reviewer.confidences = <<>>
    /\ mean_beyond(Sum(reviewer.text_lengths), Len(reviewer.text_lengths),
                   all_text_lengths, 3, 1, "either")

\* detect_reviewer_anomalies, lines 109-231: anomalous_reviewers, from
\* reviewer_stats in the order of its keys. Of an entry the reviewer_id, the
\* review_count and the key the list is sorted on are kept; max_z_score,
\* which orders the outliers, is kept as 100 times its square, rounded down.
detect_reviewer_anomalies(stats) ==
    LET all_ratings      == extend_all(stats, "ratings")
        all_confidences  == extend_all(stats, "confidences")
        all_text_lengths == extend_all(stats, "text_lengths")
        analysed  == SelectSeq(stats, LAMBDA r : ~(r.review_count < 3))
        Rating(r) == avg_or_zero(r.ratings)
        Conf(r)   == avg_or_zero(r.confidences)
        Entries(Test(_), Key(_)) ==
            LET found == SelectSeq(analysed, Test)
            IN  [k \in DOMAIN found |->
                   [reviewer_id |-> found[k].reviewer_id,
                    review_count |-> found[k].review_count,
                    key |-> Key(found[k])]]
        Top(entries, limit) ==
            Take(sorted(entries, [k \in DOMAIN entries |-> entries[k].key], TRUE), limit)
        Count(r) == r.review_count
        ZSquared(r) ==
            LET N == Len(all_text_lengths)
                n == Len(r.text_lengths)
                D == Sum(r.text_lengths) * N - Sum(all_text_lengths) * n
                V == N * Sum([k \in DOMAIN all_text_lengths |->
                                 all_text_lengths[k] * all_text_lengths[k]])
                     - Sum(all_text_lengths) * Sum(all_text_lengths)
            IN  (100 * D * D) \div (n * n * V)
    IN  [extreme_raters |->
            Top(Entries(LAMBDA r : mean_beyond(Rating(r).sum, Rating(r).n, all_ratings,
                                               2, 1, "either"),
                        LAMBDA r : deviation_of(r.ratings, all_ratings)), 20),
         inconsistent_raters |->
            Top(Entries(LAMBDA r : rating_std_above(r.ratings), Count), 15),
         low_effort_reviewers |->
            Top(Entries(LAMBDA r : \/ mean_beyond(Sum(r.text_lengths), Len(r.text_lengths),
                                                  all_text_lengths, 2, 1, "below")
                                   \/ 2 * Sum(r.content_quality) < 3 * Len(r.content_quality),
                        Count), 15),
         over_confident |->
            Top(Entries(LAMBDA r : mean_beyond(Conf(r).sum, Conf(r).n, all_confidences,
                                               3, 2, "above"), Count), 15),
         under_confident |->
            Top(Entries(LAMBDA r : mean_beyond(Conf(r).sum, Conf(r).n, all_confidences,
                                               3, 2, "below"), Count), 15),
         outlier_reviewers |->
            Top(Entries(LAMBDA r : is_outlier(r, all_text_lengths), ZSquared), 20)]

\* ------------------------------------------------------------------------
\* diversity_analysis.py: _calculate_diversity_correlation
\* ------------------------------------------------------------------------

\* _calculate_diversity_correlation, lines 477-512: the correlations that are
\* reported, each with the number of its paired samples (the coefficient and
\* the p-value of stats.pearsonr are left out)
calculate_diversity_correlation(submission_diversity_data) ==
    LET diversity_scores == [k \in DOMAIN submission_diversity_data |->
                                submission_diversity_data[k].diversity_score]
        avg_ratings == SelectSeq([k \in DOMAIN submission_diversity_data |->
                                     submission_diversity_data[k].avg_rating],
                                 LAMBDA rating : rating # NoNum)
        rating_stds == [k \in DOMAIN submission_diversity_data |->
                           submission_diversity_data[k].rating_std]
        reported ==
            (IF Len(diversity_scores) = Len(avg_ratings) /\ Len(avg_ratings) > 10
             THEN {"rating_correlation"} ELSE {})
            \cup (IF Len(diversity_scores) = Len(rating_stds) /\ Len(rating_stds) > 10
                  THEN {"consistency_correlation"} ELSE {})
    IN  [metric \in reported |->
            [samples |-> IF metric = "rating_correlation" THEN Len(avg_ratings)
                         ELSE Len(rating_stds)]]

\* ------------------------------------------------------------------------
\* run_affiliation_analysis.py: build_country_type_metrics
\* ------------------------------------------------------------------------

\* safe_mean(values) of integers, lines 40-42: None (here the empty tuple)
\* without values, else the fraction <<sum, count>>
safe_mean(values) == IF values = <<>> THEN <<>> ELSE <<Sum(values), Len(values)>>

\* safe_mean(values) of averages that are fractions: their sum over one
\* denominator, divided by their number
RECURSIVE sum_of_fractions(_)
sum_of_fractions(fractions) ==
    IF fractions = <<>> THEN <<0, 1>>
    ELSE LET rest == sum_of_fractions(Tail(fractions))
         IN  <<Head(fractions)[1] * rest[2] + rest[1] * Head(fractions)[2],
               Head(fractions)[2] * rest[2]>>

safe_mean_of_averages(averages) ==
    LET vals == SelectSeq(averages, LAMBDA v : v # <<>>)
    IN  IF vals = <<>> THEN <<>>
        ELSE <<sum_of_fractions(vals)[1], sum_of_fractions(vals)[2] * Len(vals)>>

\* finalize_inst_metrics, lines 287-322: of an entry the fields that
\* build_country_type_metrics reads
finalize_inst_metrics(institutions) ==
    [k \in DOMAIN institutions |->
        [institution      |-> institutions[k].institution,
         country          |-> institutions[k].country,
         institution_type |-> institutions[k].institution_type,
         reviewer_side    |-> [review_count   |-> Len(institutions[k].ratings),
                               avg_rating     |-> safe_mean(institutions[k].ratings),
                               avg_confidence |-> safe_mean(institutions[k].confidences)]]]

\* build_country_type_metrics, lines 527-558: the groups of one grouping
\* field in the order in which they first occur, each with the mean of the
\* averages of its institutions
group_metrics(metrics, field) ==
    LET GroupOf(m) == Or(m[field], "unknown")
        firsts  == SelectSeq([k \in DOMAIN metrics |-> k],
                             LAMBDA k : \A j \in 1..(k - 1) :
                                           GroupOf(metrics[j]) # GroupOf(metrics[k]))
        Members(group) == SelectSeq(metrics, LAMBDA m : GroupOf(m) = group)
        Averages(group, side) ==
            [k \in DOMAIN Members(group) |-> Members(group)[k].reviewer_side[side]]
    IN  [g \in DOMAIN firsts |->
           LET group == GroupOf(metrics[firsts[g]])
           IN  [group          |-> group,
                avg_rating     |-> safe_mean_of_averages(Averages(group, "avg_rating")),
                avg_confidence |-> safe_mean_of_averages(Averages(group, "avg_confidence")),
                review_count   |-> Sum([k \in DOMAIN Members(group) |->
                                           Members(group)[k].reviewer_side.review_count])]]

build_country_type_metrics(metrics) ==
    [by_country |-> group_metrics(metrics, "country"),
     by_type    |-> group_metrics(metrics, "institution_type")]

\* the ensure_inst calls on one lookup
MaxEnsureCalls == 3

\* the arguments of ensure_inst: two spellings of one institution and
\* another institution; a country (or a type) that is missing, the
\* placeholder the conversion writes, or known
EnsureNames == {"MIT", "mit", "ByteDance"}
EnsureCountries == {None, "Unknown", "United States", "China"}
EnsureTypes == {None, "Unknown", "University"}

\* the reviewers with at least 3 reviews that detect_reviewer_anomalies
\* looks at
MaxCandidates == 2

\* the reviewers with a single review beside them: each rates 6 with
\* confidence 3 in a review of 3 characters
CrowdSizes == {3, 30}

\* the ratings, confidences and text lengths of a reviewer with 3 or 4
\* reviews: high ratings in long reviews, the same with a fourth review
\* nearer the others, long reviews without ratings and confidences, low
\* ratings in empty reviews, and ratings far apart from 3 and from 4 reviews
CandidateFigures ==
    { [ratings |-> <<10, 10, 10>>, confidences |-> <<5, 5, 5>>,
       text_lengths |-> <<15, 15, 15>>],
      [ratings |-> <<10, 10, 10, 9>>, confidences |-> <<5, 5, 5, 4>>,
       text_lengths |-> <<15, 15, 15, 15>>],
      [ratings |-> <<>>, confidences |-> <<>>, text_lengths |-> <<15, 15, 15>>],
      [ratings |-> <<1, 1, 1, 1>>, confidences |-> <<1, 1, 1, 1>>,
       text_lengths |-> <<0, 0, 0, 0>>],
      [ratings |-> <<1, 10, 1>>, confidences |-> <<3, 3, 3>>, text_lengths |-> <<3, 3, 3>>],
      [ratings |-> <<2, 9, 2, 9>>, confidences |-> <<3, 3, 3, 3>>,
       text_lengths |-> <<3, 3, 3, 3>>] }

\* reviewer_stats after the collection loop: the crowd, then the candidates;
\* no review is long enough for a content_quality point
ReviewerStatsLists ==
    { [k \in 1..(crowd + Len(figs)) |->
          IF k <= crowd
          THEN [reviewer_id |-> "~R" \o Str(k), ratings |-> <<6>>, confidences |-> <<3>>,
                text_lengths |-> <<3>>, content_quality |-> <<0>>, review_count |-> 1]
          ELSE [reviewer_id     |-> "~R" \o Str(k),
                ratings         |-> figs[k - crowd].ratings,
                confidences     |-> figs[k - crowd].confidences,
                text_lengths    |-> figs[k - crowd].text_lengths,
                content_quality |-> [j \in DOMAIN figs[k - crowd].text_lengths |-> 0],
                review_count    |-> Len(figs[k - crowd].text_lengths)]] :
        crowd \in CrowdSizes,
        figs \in UNION {SeqsOfLen(CandidateFigures, n) : n \in 1..MaxCandidates} }

\* the submissions with a diversity score
MaxScoredSubs == 12

\* submission_diversity_data: n scored submissions of which the first
\* unrated have no rating at all (avg_rating None), in two series of scores
DiversityDataLists ==
    { [k \in 1..n |-> [diversity_score |-> <<1 + ((k + shift) % 3), 3>>,
                       avg_rating      |-> IF k <= unrated THEN NoNum ELSE 4 + (k % 5),
                       rating_std      |-> (k + shift) % 3]] :
        n \in 0..MaxScoredSubs, unrated \in 0..3, shift \in {0, 1} }

\* the institutions of the lookup with reviews
MaxGroupInsts == 4

\* the institutions, in the order of the lookup: two of one country, two
\* of one type, one without country and type
GroupInstitutions ==
    << [institution |-> "mit", country |-> "United States", institution_type |-> "University"],
       [institution |-> "google", country |-> "United States", institution_type |-> "Company"],
       [institution |-> "tsinghua", country |-> "China", institution_type |-> "University"],
       [institution |-> "nowhere labs", country |-> None, institution_type |-> None] >>

\* the reviewer-side ratings and confidences folded into one institution
ReviewerSideFigures ==
    { [ratings |-> <<>>, confidences |-> <<>>],
      [ratings |-> <<8>>, confidences |-> <<5>>],
      [ratings |-> <<2, 2, 2>>, confidences |-> <<3, 3, 3>>],
      [ratings |-> <<2, 4>>, confidences |-> <<4>>],
      [ratings |-> <<8, 8>>, confidences |-> <<5, 5>>] }

\* the reviewer side of the first n institutions after aggregate
ReviewerSideLists ==
    { [k \in 1..n |-> [institution      |-> GroupInstitutions[k].institution,
                       country          |-> GroupInstitutions[k].country,
                       institution_type |-> GroupInstitutions[k].institution_type,
                       ratings          |-> figs[k].ratings,
                       confidences      |-> figs[k].confidences]] :
        n \in 1..MaxGroupInsts, figs \in [1..MaxGroupInsts -> ReviewerSideFigures] }
\* ------------------------------------------------------------------------
\* geographical_analysis.py: the cross-country interactions and the
\* geographical bias. A rounded number round(x, 2) is kept in hundredths.
\* ------------------------------------------------------------------------

\* the integer nearest to a / b for a >= 0 and b > 0, a tie going to the
\* even one
RoundNat(a, b) ==
    LET q == a \div b
        r == a % b
    IN  IF 2 * r < b THEN q
        ELSE IF 2 * r > b THEN q + 1
        ELSE IF q % 2 = 0 THEN q ELSE q + 1

\* round(a / b) for b > 0
RoundRatio(a, b) == IF a < 0 THEN 0 - RoundNat(0 - a, b) ELSE RoundNat(a, b)

\* abs(x)
Abs(x) == IF x < 0 THEN 0 - x ELSE x

\* lines 247-252: the nationality of the people who have the role reviewer
reviewer_country_map_of(people) ==
    [p \in {q \in DOMAIN people : has_role(people, q, "reviewer")} |->
        Get(people[p], "nationality", "Unknown")]

\* lines 262-268: the reviews of one submission whose reviewer is in the
\* map, each with the reviewer's country
RECURSIVE reviewer_countries_of(_, _, _)
reviewer_countries_of(reviews, k, country_map) ==
    IF k > Len(reviews) THEN <<>>
    ELSE LET reviewer_id == reviews[k].reviewer_id
             rest        == reviewer_countries_of(reviews, k + 1, country_map)
         IN  IF ~Falsy(reviewer_id) /\ reviewer_id \in DOMAIN country_map
             THEN <<[country |-> country_map[reviewer_id], review |-> reviews[k]]>> \o rest
             ELSE rest

\* the distinct elements of a list in the order of their first occurrence:
\* the order in which a dict gets its keys
OrderedDistinct(seq) ==
    LET firsts == {k \in DOMAIN seq : \A j \in 1..(k - 1) : seq[j] # seq[k]}
    IN  [r \in 1..Cardinality(firsts) |->
           seq[CHOOSE k \in firsts : Cardinality({j \in firsts : j < k}) = r - 1]]

\* lines 272-279: the pairs (i, j), i # j, of the reviews of one submission
\* whose two ratings are there, in the order of the double loop (pair p is
\* review i = (p - 1) div n + 1 with review j = (p - 1) mod n + 1)
rated_pairs(submission_num, pairs) ==
    LET n == Len(pairs)
        all == [p \in 1..(n * n) |->
                  LET i == ((p - 1) \div n) + 1
                      j == ((p - 1) % n) + 1
                  IN  [submission |-> ParseInt(submission_num),
                       distinct   |-> i # j,
                       country1   |-> pairs[i].country,
                       country2   |-> pairs[j].country,
                       review1    |-> pairs[i].review,
                       rating2    |-> pairs[j].review.rating]]
    IN  SelectSeq(all, LAMBDA e : /\ e.distinct
                                  /\ e.review1.rating # NoNum
                                  /\ e.rating2 # NoNum)

\* lines 261-296: the rated pairs of the submissions from s on (a
\* submission with fewer than 2 mapped reviewers has none)
RECURSIVE interactions_from(_, _, _)
interactions_from(doc, s, country_map) ==
    IF s > Len(doc) THEN <<>>
    ELSE LET pairs == reviewer_countries_of(doc[s].reviews, 1, country_map)
         IN  (IF Len(pairs) >= 2 THEN rated_pairs(doc[s].sub_id, pairs) ELSE <<>>)
             \o interactions_from(doc, s + 1, country_map)

\* lines 286-296: the entries of cross_country_matrix[country1], one per
\* target country in the order in which the dict got them, from the
\* cross-country pairs of country1
targets_of(crossing) ==
    LET names == OrderedDistinct([k \in DOMAIN crossing |-> crossing[k].country2])
    IN  [t \in DOMAIN names |->
           LET toward == SelectSeq(crossing, LAMBDA e : e.country2 = names[t])
           IN  [target_country |-> names[t],
                count          |-> Len(toward),
                ratings        |-> [k \in DOMAIN toward |-> toward[k].review1.rating],
                confidences    |-> <<>>,
                reviews        |->
                    [k \in DOMAIN toward |->
                       [submission       |-> toward[k].submission,
                        reviewer_country |-> toward[k].country1,
                        target_country   |-> toward[k].country2,
                        rating           |-> toward[k].review1.rating,
                        confidence       |-> toward[k].review1.confidence]]]]

\* analyze_cross_country_interactions, lines 236-297; the average of a
\* same-country pair is kept as the sum of its two ratings
analyze_cross_country_interactions(people, doc) ==
    LET found    == interactions_from(doc, 1, reviewer_country_map_of(people))
        crossing == SelectSeq(found, LAMBDA e : e.country1 # e.country2)
        within   == SelectSeq(found, LAMBDA e : e.country1 = e.country2)
    IN  [cross_country_matrix |->
            [c \in {crossing[k].country1 : k \in DOMAIN crossing} |->
                targets_of(SelectSeq(crossing, LAMBDA e : e.country1 = c))],
         same_country_reviews |->
            [c \in {within[k].country1 : k \in DOMAIN within} |->
                LET own == SelectSeq(within, LAMBDA e : e.country1 = c)
                IN  [k \in DOMAIN own |->
                       [submission  |-> own[k].submission,
                        rating_diff |-> Abs(own[k].review1.rating - own[k].rating2),
                        rating_sum  |-> own[k].review1.rating + own[k].rating2]]]]

\* lines 316-323: the targets with at least 3 ratings, with their rounded
\* average, in the order of the dict
target_ratings_of(targets) ==
    LET kept == SelectSeq(targets, LAMBDA data : data.count >= 3 /\ data.ratings # <<>>)
    IN  [k \in DOMAIN kept |->
           [target_country |-> kept[k].target_country,
            avg_rating     |-> RoundRatio(100 * Sum(kept[k].ratings), Len(kept[k].ratings)),
            count          |-> kept[k].count]]

\* line 323: the ratings given to the targets with at least 3 ratings
all_cross_ratings_of(targets) ==
    extend_all(SelectSeq(targets, LAMBDA data : data.count >= 3 /\ data.ratings # <<>>),
               "ratings")

\* lines 342-361: the targets listed as biased towards (side 1) or against
\* (side -1): at least 5 ratings, and the rounded average at least 0.3 from
\* the cross-country average cross_sum / cross_n
biased_list(target_ratings, cross_sum, cross_n, side) ==
    LET Diff(rating_data) == rating_data.avg_rating * cross_n - 100 * cross_sum
        listed == SelectSeq(target_ratings,
                            LAMBDA rating_data :
                               /\ rating_data.count >= 5
                               /\ Abs(Diff(rating_data)) >= 30 * cross_n
                               /\ IF side = 1 THEN Diff(rating_data) > 0
                                  ELSE ~(Diff(rating_data) > 0))
    IN  [k \in DOMAIN listed |->
           [target_country |-> listed[k].target_country,
            avg_rating     |-> listed[k].avg_rating,
            difference     |-> RoundRatio(Diff(listed[k]), cross_n),
            review_count   |-> listed[k].count]]

\* _analyze_cultural_distance, lines 382-429
analyze_cultural_distance(country, target_ratings) ==
    LET own_group == cultural_group_of(country)
        grouped   == SelectSeq(target_ratings,
                               LAMBDA t : cultural_group_of(t.target_country) # None)
        same      == SelectSeq(grouped,
                               LAMBDA t : cultural_group_of(t.target_country) = own_group)
        different == SelectSeq(grouped,
                               LAMBDA t : cultural_group_of(t.target_country) # own_group)
        SumOf(list) == Sum([k \in DOMAIN list |-> list[k].avg_rating])
    IN  IF own_group = None \/ same = <<>> \/ different = <<>> THEN EmptyMap
        ELSE [reviewer_cultural_group      |-> own_group,
              same_culture_avg_rating      |-> RoundRatio(SumOf(same), Len(same)),
              different_culture_avg_rating |-> RoundRatio(SumOf(different), Len(different)),
              cultural_bias_score          |->
                  RoundRatio(SumOf(same) * Len(different) - SumOf(different) * Len(same),
                             Len(same) * Len(different)),
              same_culture_count           |-> Len(same),
              different_culture_count      |-> Len(different)]

\* lines 325-373: the entry of one reviewer country with at least 10
\* cross-country ratings (home_bias_score is the empty list for None, a
\* list of the score otherwise)
bias_entry(country, targets, same_country_data) ==
    LET target_ratings    == target_ratings_of(targets)
        all_cross_ratings == all_cross_ratings_of(targets)
        cross_sum         == Sum(all_cross_ratings)
        cross_n           == Len(all_cross_ratings)
        same_sum          == Sum([k \in DOMAIN same_country_data |->
                                     same_country_data[k].rating_sum])
        same_n            == 2 * Len(same_country_data)
    IN  [overall_cross_country_avg |-> RoundRatio(100 * cross_sum, cross_n),
         same_country_avg          |-> IF same_country_data = <<>> THEN NoNum
                                       ELSE RoundRatio(100 * same_sum, same_n),
         home_bias_score           |->
             IF same_country_data = <<>> THEN <<>>
             ELSE <<RoundRatio(100 * (same_sum * cross_n - cross_sum * same_n),
                               same_n * cross_n)>>,
         total_cross_reviews       |-> cross_n,
         biased_towards |->
             LET listed == biased_list(target_ratings, cross_sum, cross_n, 1)
             IN  Take(sorted(listed, [k \in DOMAIN listed |-> listed[k].difference], TRUE), 5),
         biased_against |->
             LET listed == biased_list(target_ratings, cross_sum, cross_n, -1)
             IN  Take(sorted(listed, [k \in DOMAIN listed |-> listed[k].difference], FALSE), 5),
         cultural_distance_effects |-> analyze_cultural_distance(country, target_ratings)]

\* detect_geographical_bias, lines 302-375
detect_geographical_bias(matrix, same_country, profiles) ==
    [country \in {c \in DOMAIN matrix \cap profiles :
                     Len(all_cross_ratings_of(matrix[c])) >= 10} |->
        bias_entry(country, matrix[country], Get(same_country, country, <<>>))]

\* the submissions of the reviews document the geographical bias is
\* computed on
MaxBiasSubs == 3

\* self.people_data['people'] of the geographical analyzer: two reviewers of
\* the United States, five of China, five of France, and an author who
\* reviews nothing
BiasPeople ==
    LET Person(nationality, role) == [nationality |-> nationality, roles |-> <<role>>]
    IN  [p \in {"~us1", "~us2", "~cn1", "~cn2", "~cn3", "~cn4", "~cn5",
                "~fr1", "~fr2", "~fr3", "~fr4", "~fr5", "~au1"} |->
           IF p \in {"~us1", "~us2"} THEN Person("United States", "reviewer")
           ELSE IF p \in {"~cn1", "~cn2", "~cn3", "~cn4", "~cn5"}
           THEN Person("China", "reviewer")
           ELSE IF p = "~au1" THEN Person("United States", "author")
           ELSE Person("France", "reviewer")]

\* a review as far as the geographical analyzer reads it
BiasReview(reviewer_id, rating) ==
    [reviewer_id |-> reviewer_id, rating |-> rating, confidence |-> 3]

\* the panels of a submission: two reviewers of one country next to three
\* of another, one reviewer next to one, one next to five (twice), a panel
\* with an unrated review, and a panel with a non-reviewer and a review
\* without reviewer id
BiasPanels ==
    { << BiasReview("~us1", 8), BiasReview("~us2", 6), BiasReview("~cn1", 4),
         BiasReview("~cn2", 4), BiasReview("~cn3", 2) >>,
      << BiasReview("~us1", 5), BiasReview("~fr1", 9) >>,
      << BiasReview("~us1", 3), BiasReview("~cn1", 5), BiasReview("~cn2", 5),
         BiasReview("~cn3", 5), BiasReview("~cn4", 5), BiasReview("~cn5", 6) >>,
      << BiasReview("~us2", 9), BiasReview("~fr1", 1), BiasReview("~fr2", 1),
         BiasReview("~fr3", 1), BiasReview("~fr4", 2), BiasReview("~fr5", 1),
         BiasReview("~au1", 7), BiasReview(None, 7) >>,
      << BiasReview("~us1", NoNum), BiasReview("~cn1", 6), BiasReview("~fr1", 7),
         BiasReview("~fr2", 7) >> }

\* the reviews documents: submissions "1", "2", ... with one of the panels
BiasDocs ==
    { [k \in DOMAIN panels |-> [sub_id |-> Str(k), reviews |-> panels[k]]] :
        panels \in UNION {SeqsOfLen(BiasPanels, n) : n \in 0..MaxBiasSubs} }

\* the countries that have a profile: all, or all but the United States
BiasProfiles == { {"United States", "China", "France"}, {"China", "France"} }

\* ------------------------------------------------------------------------
\* anomaly_detection.py: detect_submission_anomalies. The population
\* variance of a list of n values is V / n^2 with V = n * sum(x^2) - sum(x)^2
\* ------------------------------------------------------------------------

\* n^2 times the population variance of a list
variance_n2(values) ==
    Len(values) * Sum([k \in DOMAIN values |-> values[k] * values[k]])
    - Sum(values) * Sum(values)

\* max(values) and min(values) of a non-empty list
MaxOf(values) == CHOOSE v \in Range(values) : \A w \in Range(values) : w <= v
MinOf(values) == CHOOSE v \in Range(values) : \A w \in Range(values) : v <= w

\* round(np.std(ratings), 2) in hundredths: the h with
\* (h - 1/2)^2 <= V / n^2 * 10^4 < (h + 1/2)^2
rounded_std(ratings) ==
    LET n == Len(ratings)
        V == variance_n2(ratings)
    IN  CHOOSE h \in 0..500 :
           /\ 40000 * V < (2 * h + 1) * (2 * h + 1) * n * n
           /\ h > 0 => ~(40000 * V < (2 * h - 1) * (2 * h - 1) * n * n)

controversial_from_two(stats) ==
    /\ ~(variance_n2(stats.ratings) < 4 * Len(stats.ratings) * Len(stats.ratings))
    /\ stats.num_reviews >= 3

\* line 313: stats['rating_std'] > 2.0 and stats['num_reviews'] >= 3
controversial(stats) ==
    /\ variance_n2(stats.ratings) > 4 * Len(stats.ratings) * Len(stats.ratings)
    /\ stats.num_reviews >= 3

\* line 324: stats['rating_std'] < 0.2 and stats['num_reviews'] >= 3
consensus_outlier(stats) ==
    /\ 25 * variance_n2(stats.ratings) < Len(stats.ratings) * Len(stats.ratings)
    /\ stats.num_reviews >= 3

\* line 334: stats['avg_rating'] <= 2.5 or stats['avg_rating'] >= 8.0
extreme_rated(stats) ==
    \/ 2 * Sum(stats.ratings) <= 5 * Len(stats.ratings)
    \/ Sum(stats.ratings) >= 8 * Len(stats.ratings)

\* line 345: stats['avg_text_length'] < 500 and stats['num_reviews'] >= 2
low_quality(stats) ==
    /\ Sum(stats.text_lengths) < 500 * Len(stats.text_lengths)
    /\ stats.num_reviews >= 2

\* round(stats['avg_rating'], 2) in hundredths
rounded_avg_rating(stats) == RoundRatio(100 * Sum(stats.ratings), Len(stats.ratings))

\* the product of the lengths of the lists of a field, over all submissions
RECURSIVE LenProduct(_, _)
LenProduct(entries, field) ==
    IF entries = <<>> THEN 1
    ELSE Len(Head(entries)[field]) * LenProduct(Tail(entries), field)

\* the mean of the per-submission means of a field, as numerator and
\* denominator (np.mean of an empty list is nan: no fraction)
mean_of_means(entries, field) ==
    LET L == LenProduct(entries, field)
    IN  [num |-> Sum([k \in DOMAIN entries |->
                         Sum(entries[k][field]) * (L \div Len(entries[k][field]))]),
         den |-> Len(entries) * L]

\* lines 253-289: submission_stats in the order of the dict, each entry with
\* its key
RECURSIVE submission_stats_list(_, _)
submission_stats_list(doc, s) ==
    IF s > Len(doc) THEN <<>>
    ELSE LET collected == collect_submission_stats(EmptyMap, doc[s].sub_id, doc[s].reviews)
         IN  (IF doc[s].sub_id \in DOMAIN collected
              THEN <<[submission_num |-> doc[s].sub_id,
                      num_reviews    |-> collected[doc[s].sub_id].num_reviews,
                      ratings        |-> collected[doc[s].sub_id].ratings,
                      confidences    |-> collected[doc[s].sub_id].confidences,
                      text_lengths   |-> collected[doc[s].sub_id].text_lengths]>>
              ELSE <<>>) \o submission_stats_list(doc, s + 1)

\* detect_submission_anomalies, lines 246-382: what it stores in
\* anomaly_results['submission_anomalies']. The mean of the deviations is
\* kept as the list of the ratings lists it is taken over.
detect_submission_anomalies(doc) ==
    LET entries == submission_stats_list(doc, 1)
        global_avg == mean_of_means(entries, "ratings")
        global_text == mean_of_means(entries, "text_lengths")
        Listed(Flagged(_), Entry(_), Key(_)) ==
            LET hits == SelectSeq(entries, Flagged)
            IN  Take(sorted([k \in DOMAIN hits |-> Entry(hits[k])],
                            [k \in DOMAIN hits |-> Key(hits[k])], TRUE), 20)
        avg_text_length(stats) ==
            RoundRatio(Sum(stats.text_lengths), Len(stats.text_lengths))
    IN  [anomalous_submissions |->
           [controversial_papers |->
               Listed(controversial,
                      LAMBDA stats : [submission_num |-> ParseInt(stats.submission_num),
                                      rating_std     |-> rounded_std(stats.ratings),
                                      avg_rating     |-> rounded_avg_rating(stats),
                                      rating_range   |-> MaxOf(stats.ratings)
                                                         - MinOf(stats.ratings),
                                      num_reviews    |-> stats.num_reviews,
                                      ratings        |-> stats.ratings],
                      LAMBDA stats : rounded_std(stats.ratings)),
            consensus_outliers |->
               Listed(consensus_outlier,
                      LAMBDA stats : [submission_num |-> ParseInt(stats.submission_num),
                                      rating_std     |-> rounded_std(stats.ratings),
                                      avg_rating     |-> rounded_avg_rating(stats),
                                      num_reviews    |-> stats.num_reviews,
                                      ratings        |-> stats.ratings],
                      LAMBDA stats : 0 - rounded_std(stats.ratings)),
            extreme_rated_papers |->
               Listed(extreme_rated,
                      LAMBDA stats : [submission_num |-> ParseInt(stats.submission_num),
                                      avg_rating     |-> rounded_avg_rating(stats),
                                      min_rating     |-> MinOf(stats.ratings),
                                      max_rating     |-> MaxOf(stats.ratings),
                                      num_reviews    |-> stats.num_reviews,
                                      extreme_type   |->
                                          IF 2 * Sum(stats.ratings) <= 5 * Len(stats.ratings)
                                          THEN "very_low" ELSE "very_high"],
                      LAMBDA stats : Abs(rounded_avg_rating(stats) * global_avg.den
                                         - 100 * global_avg.num)),
            low_quality_reviews |->
               Listed(low_quality,
                      LAMBDA stats : [submission_num  |-> ParseInt(stats.submission_num),
                                      avg_text_length |-> avg_text_length(stats),
                                      avg_rating      |-> rounded_avg_rating(stats),
                                      num_reviews     |-> stats.num_reviews],
                      LAMBDA stats : 0 - avg_text_length(stats))],
         global_statistics |->
           [total_submissions      |-> Len(entries),
            global_avg_rating      |->
                IF entries = <<>> THEN <<>>
                ELSE <<RoundRatio(100 * global_avg.num, global_avg.den)>>,
            global_rating_std_mean |-> [k \in DOMAIN entries |-> entries[k].ratings],
            global_text_mean       |->
                IF entries = <<>> THEN <<>>
                ELSE <<RoundRatio(global_text.num, global_text.den)>>]]

\* the submissions of the reviews document the submission anomalies are
\* detected on
MaxScoredDocSubs == 2

\* a summary of more than 500 characters
VeryLongSummary ==
    LongSummary \o LongSummary \o LongSummary \o LongSummary \o LongSummary
    \o LongSummary \o LongSummary \o LongSummary \o LongSummary

\* the reviews of a panel with the given ratings (NoNum: the review has no
\* rating)
PanelOf(ratings, content) ==
    [k \in DOMAIN ratings |->
       [review_id |-> "r" \o Str(k), reviewer_id |-> "~R" \o Str(k), rating |-> ratings[k],
        confidence |-> IF k = 1 THEN NoNum ELSE 3, content |-> content]]

\* the panels: ratings whose deviation is exactly 2.0 (with 4, 5 and 6
\* reviews), above 2.0 with two, three and four reviews, of which one
\* unrated, below 2.0, unanimous, very low and very high ratings, no rating
\* at all, and no review
ScoredPanels ==
    { PanelOf(<<2, 6, 2, 6>>, FullContent),
      PanelOf(<<7, 1, 5, 3, 4>>, FullContent),
      PanelOf(<<6, 6, 6, 2, 2, 2>>, NoContent),
      PanelOf(<<2, 6, 2, 7>>, FullContent),
      PanelOf(<<1, 10>>, FullContent),
      PanelOf(<<1, 10, NoNum>>, FullContent),
      PanelOf(<<1, 7, 7>>, [FullContent EXCEPT !.summary = VeryLongSummary]),
      PanelOf(<<3, 7, 3, 7, 5>>, FullContent),
      PanelOf(<<5, 5, 5>>, NullSummary),
      PanelOf(<<1, 3, 1>>, FullContent),
      PanelOf(<<9, 9, 8>>, NoContent),
      PanelOf(<<NoNum, NoNum, NoNum>>, FullContent),
      <<>> }

\* the reviews documents: submissions "1", "2", ... with one of the panels
ScoredDocs ==
    { [k \in DOMAIN panels |-> [sub_id |-> Str(k), reviews |-> panels[k]]] :
        panels \in UNION {SeqsOfLen(ScoredPanels, n) : n \in 0..MaxScoredDocSubs} }

\* ------------------------------------------------------------------------
\* enrich_country.py and enrich_institutions_optimized.py:
\* get_profiles_with_retry
\* ------------------------------------------------------------------------

\* line 50 (line 169): max_retries
max_retries == 5

\* line 56 (line 175): "Too many requests" in error_str or "429" in error_str
is_rate_limit(message) == Contains(message, "Too many requests") \/ Contains(message, "429")

\* the length of the run of digits of s from position i on
RECURSIVE DigitRun(_, _)
DigitRun(s, i) ==
    IF i <= Len(s) /\ IndexIn(Digits, CharAt(s, i)) # 0 THEN 1 + DigitRun(s, i + 1) ELSE 0

\* re.search(r"try again in (\d+) seconds", s): group 1 of the first match
\* from position i on, None when there is none
RECURSIVE try_again_seconds(_, _)
try_again_seconds(s, i) ==
    LET at == FindFrom(s, "try again in ", i)
        d  == DigitRun(s, at + 13)
    IN  IF at = 0 THEN None
        ELSE IF d > 0 /\ At(s, at + 13 + d, " seconds") THEN SubSeq(s, at + 13, at + 12 + d)
        ELSE try_again_seconds(s, at + 1)

\* lines 57-63 (lines 176-182): the pause before the next attempt
wait_time_of(message) ==
    LET group == try_again_seconds(message, 1)
    IN  IF group = None THEN 60 ELSE ParseInt(group) + 5

\* the batches get_profiles_with_retry is called on
BatchIds == { <<"~Ann_Lee1">>, <<"~Ann_Lee1", "~Bo_Wu2">>, <<"~Ann_Lee4291">> }

\* the OpenReviewException errors of the API: whether the API refused the
\* call for its rate limit, and the text str(e) of the exception
ApiErrors ==
    { [rate_limit |-> TRUE,  text |-> "Too many requests: Please try again in 30 seconds"],
      [rate_limit |-> TRUE,  text |-> "Too many requests"],
      [rate_limit |-> TRUE,  text |-> "status 429, try again in a few seconds"],
      [rate_limit |-> FALSE, text |-> "Forbidden"],
      [rate_limit |-> FALSE, text |-> "Profile ~Ann_Lee4291 not found"] }

\* the exceptions of another class the call can end with
OtherExceptions == { "requests.exceptions.ConnectionError" }
\* ------------------------------------------------------------------------
\* State
\* ------------------------------------------------------------------------

\* the normaliser called on one input: the input and the results
VARIABLES raw_name, canonical, canonical2, country_norm, inferred_type

\* convert_data.py: the three output tables and the position of the loop over
\* the input lines (the submission being converted, the authors and reviews
\* of it still to be processed), the number of process_person calls made and
\* the person entry handed to the last one
VARIABLES people, institutions_map, reviews_output, total_reviews_count,
          lines_read, person_calls, last_sighting, sub_num, authors_left,
          reviews_left, author_ids, cleaned_reviews

\* the analysis scripts: the documents read, the lookups and accumulators of
\* aggregate, and the tables of the two collection loops of the anomaly
\* detector, each with the number of submissions already folded in
VARIABLES script, reviews_doc, people_doc, inst_map, person_insts, person_country,
          agg, agg_pos, reviewer_stats, rev_pos, submission_stats, sub_pos

\* the diversity analyses: the analysis run and its reviews document, the
\* number of submissions already analysed, the review_count per category and
\* the diversity entries written; for _analyze_cultural_distance the
\* reviewer's country, the target countries, and the outcome
VARIABLES div_analysis, div_reviews, div_pos, category_review_data,
          submission_category_diversity, reviewer_country, target_countries,
          reviewer_group, same_culture, different_culture

\* the rankings: the script that builds them, the list it ranks and the
\* rankings built
VARIABLES rank_script, inst_metrics, country_profiles, rankings

\* the content pass of the anomaly detector: the reviews document and what
\* each run on it left
VARIABLES content_doc, content_reports

\* the geographical analyzer: its reviews document, whether it is
\* constructed, its country_data, and what each invocation returned
VARIABLES geo_reviews, geo_loaded, country_data, geo_results

\* the institution lookup under ensure_inst calls: the lookup, the number of
\* calls made, the arguments of the last call
VARIABLES inst_lookup, ensure_calls, last_ensure

\* the detection stage of detect_reviewer_anomalies: the collected
\* reviewer_stats and the anomalous_reviewers it leaves
VARIABLES stats_collected, anomalous_reviewers

\* the correlation of diversity and review quality: the scored submissions,
\* whether an analysis has scored them, and what is reported
VARIABLES submission_diversity_data, corr_scored, diversity_correlation

\* the group metrics: the reviewer side of the institutions after
\* aggregate, and the metrics by country and by type
VARIABLES reviewer_side, country_type

\* the geographical bias: the reviews and the country profiles the analyzer
\* works on, what analyze_cross_country_interactions returned, and what
\* detect_geographical_bias returned
VARIABLES bias_reviews, bias_profiles, cross_country, geographical_bias

\* the submission anomalies: the reviews document and what
\* detect_submission_anomalies stored
VARIABLES scored_doc, submission_anomalies

\* get_profiles_with_retry: the batch, where the call stands, the loop
\* variable, the calls made to the API, the message of the last error, the
\* pause it asked for, and what the call returned
VARIABLES batch_ids, retry_pc, attempt, api_calls, error_str, wait_time, retry_result

normVars == <<raw_name, canonical, canonical2, country_norm, inferred_type>>

convVars == <<people, institutions_map, reviews_output, total_reviews_count,
              lines_read, person_calls, last_sighting, sub_num, authors_left,
              reviews_left, author_ids, cleaned_reviews>>

aggVars == <<script, reviews_doc, people_doc, inst_map, person_insts, person_country,
             agg, agg_pos, reviewer_stats, rev_pos, submission_stats, sub_pos>>

divVars == <<div_analysis, div_reviews, div_pos, category_review_data,
             submission_category_diversity, reviewer_country, target_countries,
             reviewer_group, same_culture, different_culture>>

rankVars == <<rank_script, inst_metrics, country_profiles, rankings>>

contentVars == <<content_doc, content_reports>>

geoVars == <<geo_reviews, geo_loaded, country_data, geo_results>>

ensureVars == <<inst_lookup, ensure_calls, last_ensure>>

anomVars == <<stats_collected, anomalous_reviewers>>

corrVars == <<submission_diversity_data, corr_scored, diversity_correlation>>

groupVars == <<reviewer_side, country_type>>

biasVars == <<bias_reviews, bias_profiles, cross_country, geographical_bias>>

subVars == <<scored_doc, submission_anomalies>>

retryVars == <<batch_ids, retry_pc, attempt, api_calls, error_str, wait_time, retry_result>>

vars == <<normVars, convVars, aggVars, divVars, rankVars, contentVars, geoVars, ensureVars,
          anomVars, corrVars, groupVars, biasVars, subVars, retryVars>>

NormFresh == /\ canonical = Pending
             /\ country_norm = Pending
             /\ inferred_type = Pending

NormInit == /\ raw_name \in NormInputs
            /\ canonical = Pending
            /\ canonical2 = Pending
            /\ country_norm = Pending
            /\ inferred_type = Pending

\* the normaliser is not called
NormIdle == /\ raw_name = None
            /\ canonical = Pending
            /\ canonical2 = Pending
            /\ country_norm = Pending
            /\ inferred_type = Pending

NormalizeInstitution ==
    /\ NormFresh
    /\ canonical' = normalize_institution(raw_name)
    /\ UNCHANGED <<raw_name, canonical2, country_norm, inferred_type, convVars, aggVars,
                   divVars, rankVars, contentVars, geoVars, ensureVars, anomVars, corrVars,
                   groupVars, biasVars, subVars, retryVars>>

\* the normaliser applied to its own output
Renormalize ==
    /\ canonical # Pending
    /\ canonical2 = Pending
    /\ canonical2' = normalize_institution(canonical)
    /\ UNCHANGED <<raw_name, canonical, country_norm, inferred_type, convVars, aggVars,
                   divVars, rankVars, contentVars, geoVars, ensureVars, anomVars, corrVars,
                   groupVars, biasVars, subVars, retryVars>>

NormalizeCountry ==
    /\ NormFresh
    /\ country_norm' = normalize_country(raw_name)
    /\ UNCHANGED <<raw_name, canonical, canonical2, inferred_type, convVars, aggVars, divVars,
                   rankVars, contentVars, geoVars, ensureVars, anomVars, corrVars, groupVars,
                   biasVars, subVars, retryVars>>

InferInstitutionType ==
    /\ NormFresh
    /\ inferred_type' = infer_institution_type(raw_name)
    /\ UNCHANGED <<raw_name, canonical, canonical2, country_norm, convVars, aggVars, divVars,
                   rankVars, contentVars, geoVars, ensureVars, anomVars, corrVars, groupVars,
                   biasVars, subVars, retryVars>>

ConvInit == /\ people = EmptyMap
            /\ institutions_map = EmptyMap
            /\ reviews_output = EmptyMap
            /\ total_reviews_count = 0
            /\ lines_read = 0
            /\ person_calls = 0
            /\ last_sighting = NoProfile
            /\ sub_num = NoNum
            /\ authors_left = 0
            /\ reviews_left = 0
            /\ author_ids = <<>>
            /\ cleaned_reviews = <<>>

\* lines 168-191: the lines the loop passes over with "continue": a blank or
\* unparsable line, a submission without usable number, one without reviews
SkippedLines ==
    { l \in [parses : BOOLEAN, number : SubmissionNumbers, id : SubmissionIds,
             nreviews : 0..MaxReviews] :
        \/ ~l.parses
        \/ submission_number_of(l.number, l.id) \in {NoNum, 0}
        \/ l.nreviews = 0 }

\* lines 168-191: such a line is read; nothing is processed for it
SkipLine ==
    /\ sub_num = NoNum
    /\ lines_read < MaxLines
    /\ SkippedLines # {}
    /\ lines_read' = lines_read + 1
    /\ UNCHANGED <<people, institutions_map, reviews_output, total_reviews_count, person_calls,
                   last_sighting, sub_num, authors_left, reviews_left, author_ids,
                   cleaned_reviews, normVars, aggVars, divVars, rankVars, contentVars, geoVars,
                   ensureVars, anomVars, corrVars, groupVars, biasVars, subVars, retryVars>>

\* lines 168-191: a submission with a number and at least one review is taken up
BeginSubmission ==
    /\ sub_num = NoNum
    /\ lines_read < MaxLines
    /\ \E number \in SubmissionNumbers, id \in SubmissionIds,
          nauthors \in 0..MaxAuthors, nreviews \in 1..MaxReviews :
          /\ submission_number_of(number, id) \notin {NoNum, 0}
          /\ person_calls + nauthors + nreviews <= MaxPersonCalls
          /\ sub_num' = submission_number_of(number, id)
          /\ authors_left' = nauthors
          /\ reviews_left' = nreviews
    /\ lines_read' = lines_read + 1
    /\ author_ids' = <<>>
    /\ cleaned_reviews' = <<>>
    /\ UNCHANGED <<people, institutions_map, reviews_output, total_reviews_count, person_calls,
                   last_sighting, normVars, aggVars, divVars, rankVars, contentVars, geoVars,
                   ensureVars, anomVars, corrVars, groupVars, biasVars, subVars, retryVars>>

\* lines 194-197: one iteration of the loop over the authors
ProcessAuthor ==
    /\ sub_num # NoNum
    /\ authors_left > 0
    /\ \E author \in PersonObjs :
          LET ppl == process_person_people(people, author, "author")
          IN  /\ people' = IF ~Falsy(author.id)
                           THEN [ppl EXCEPT ![author.id].authored_papers = Append(@, sub_num)]
                           ELSE ppl
              /\ institutions_map' = process_person_institutions(institutions_map, author)
              /\ author_ids' = IF ~Falsy(author.id) THEN Append(author_ids, author.id)
                               ELSE author_ids
              /\ last_sighting' = author
    /\ person_calls' = person_calls + 1
    /\ authors_left' = authors_left - 1
    /\ UNCHANGED <<reviews_output, total_reviews_count, lines_read, sub_num, reviews_left,
                   cleaned_reviews, normVars, aggVars, divVars, rankVars, contentVars, geoVars,
                   ensureVars, anomVars, corrVars, groupVars, biasVars, subVars, retryVars>>

\* lines 201-240: one iteration of the loop over the reviews
ProcessReview ==
    /\ sub_num # NoNum
    /\ authors_left = 0
    /\ reviews_left > 0
    /\ \E review \in ReviewObjs(sub_num) :
          LET reviewer_profile == reviewer_profile_of(review)
              reviewer_id      == reviewer_profile.id
              ppl == process_person_people(people, reviewer_profile, "reviewer")
          IN  /\ people' = IF reviewer_id \in DOMAIN ppl
                           THEN [ppl EXCEPT ![reviewer_id].reviewed_papers = Append(@, sub_num)]
                           ELSE ppl
              /\ institutions_map' =
                     process_person_institutions(institutions_map, reviewer_profile)
              /\ cleaned_reviews' =
                     Append(cleaned_reviews,
                            [review_id   |-> review.id,
                             reviewer_id |-> reviewer_id,
                             signature   |-> review.signature])
              /\ last_sighting' = reviewer_profile
    /\ person_calls' = person_calls + 1
    /\ total_reviews_count' = total_reviews_count + 1
    /\ reviews_left' = reviews_left - 1
    /\ UNCHANGED <<reviews_output, lines_read, sub_num, authors_left, author_ids, normVars,
                   aggVars, divVars, rankVars, contentVars, geoVars, ensureVars, anomVars,
                   corrVars, groupVars, biasVars, subVars, retryVars>>

\* lines 242-249: the submission's entry is written
EmitSubmission ==
    /\ sub_num # NoNum
    /\ authors_left = 0
    /\ reviews_left = 0
    /\ reviews_output' = Put(reviews_output, Str(sub_num),
                             [submission_number |-> sub_num,
                              authors           |-> author_ids,
                              reviews           |-> cleaned_reviews])
    /\ sub_num' = NoNum
    /\ author_ids' = <<>>
    /\ cleaned_reviews' = <<>>
    /\ UNCHANGED <<people, institutions_map, total_reviews_count, lines_read, person_calls,
                   last_sighting, authors_left, reviews_left, normVars, aggVars, divVars,
                   rankVars, contentVars, geoVars, ensureVars, anomVars, corrVars, groupVars,
                   biasVars, subVars, retryVars>>

\* lines 149-177: the empty accumulators
NewAccumulators ==
    [reviewer_metrics       |-> EmptyMap,
     inst_reviewer_metrics  |-> EmptyMap,
     inst_author_metrics    |-> EmptyMap,
     flows                  |-> EmptyMap,
     submission_diversity   |-> EmptyMap,
     missing_reviewer_inst  |-> 0,
     total_reviews          |-> 0,
     reviewer_insts_for_sub |-> <<>>,
     ratings_for_sub        |-> <<>>]

\* the documents are loaded; main has built the institution lookup
\* nothing read and nothing accumulated yet
AggFresh ==
    /\ inst_map = build_inst_lookup(InstitutionsDoc, 1, EmptyMap)
    /\ person_insts = EmptyMap
    /\ person_country = EmptyMap
    /\ agg = NewAccumulators
    /\ agg_pos = -1
    /\ reviewer_stats = EmptyMap
    /\ rev_pos = 0
    /\ submission_stats = EmptyMap
    /\ sub_pos = 0

\* one of the analysis scripts is started on a reviews and a people document
AggInit ==
    /\ script \in Scripts
    /\ reviews_doc \in ReviewsDocs
    /\ people_doc \in PeopleDocs
    /\ AggFresh

\* no analysis script runs
AggIdle ==
    /\ script = None
    /\ reviews_doc = <<>>
    /\ people_doc = EmptyPeopleDoc
    /\ AggFresh

\* aggregate, lines 146-177: the person lookups are built
StartAggregate ==
    /\ script = "run_affiliation_analysis"
    /\ agg_pos = -1
    /\ inst_map' = build_person_insts_map(people_doc.people, people_doc.pids, 1, inst_map)
    /\ person_insts' = [p \in DOMAIN people_doc.people |->
                           person_norm_list(people_doc.people[p])]
    /\ person_country' = [p \in {q \in DOMAIN people_doc.people :
                                    ~Falsy(people_doc.people[q].nationality)} |->
                             people_doc.people[p].nationality]
    /\ agg_pos' = 0
    /\ UNCHANGED <<script, reviews_doc, people_doc, agg, reviewer_stats, rev_pos,
                   submission_stats, sub_pos, normVars, convVars, divVars, rankVars,
                   contentVars, geoVars, ensureVars, anomVars, corrVars, groupVars, biasVars,
                   subVars, retryVars>>

\* aggregate, lines 179-257: one submission of the reviews document
AggregateSubmission ==
    /\ script = "run_affiliation_analysis"
    /\ agg_pos >= 0
    /\ agg_pos < Len(reviews_doc)
    /\ LET sub == reviews_doc[agg_pos + 1]
       IN  agg' = aggregate_submission(
                      agg, sub.sub_id, sub.reviews, person_insts,
                      author_inst_set_of(people_doc.people, people_doc.pids, sub.sub_id))
    /\ agg_pos' = agg_pos + 1
    /\ UNCHANGED <<script, reviews_doc, people_doc, inst_map, person_insts, person_country,
                   reviewer_stats, rev_pos, submission_stats, sub_pos, normVars, convVars,
                   divVars, rankVars, contentVars, geoVars, ensureVars, anomVars, corrVars,
                   groupVars, biasVars, subVars, retryVars>>

\* detect_reviewer_anomalies, lines 69-105: one submission
CollectReviewerStats ==
    /\ script = "anomaly_detection"
    /\ rev_pos < Len(reviews_doc)
    /\ LET sub == reviews_doc[rev_pos + 1]
       IN  reviewer_stats' = collect_reviewer_stats(reviewer_stats, sub.sub_id, sub.reviews, 1)
    /\ rev_pos' = rev_pos + 1
    /\ UNCHANGED <<script, reviews_doc, people_doc, inst_map, person_insts, person_country,
                   agg, agg_pos, submission_stats, sub_pos, normVars, convVars, divVars,
                   rankVars, contentVars, geoVars, ensureVars, anomVars, corrVars, groupVars,
                   biasVars, subVars, retryVars>>

\* detect_submission_anomalies, lines 253-289: one submission; it runs after
\* detect_reviewer_anomalies
CollectSubmissionStats ==
    /\ script = "anomaly_detection"
    /\ rev_pos = Len(reviews_doc)
    /\ sub_pos < Len(reviews_doc)
    /\ LET sub == reviews_doc[sub_pos + 1]
       IN  submission_stats' = collect_submission_stats(submission_stats, sub.sub_id, sub.reviews)
    /\ sub_pos' = sub_pos + 1
    /\ UNCHANGED <<script, reviews_doc, people_doc, inst_map, person_insts, person_country,
                   agg, agg_pos, reviewer_stats, rev_pos, normVars, convVars, divVars,
                   rankVars, contentVars, geoVars, ensureVars, anomVars, corrVars, groupVars,
                   biasVars, subVars, retryVars>>


\* nothing analysed yet
DivFresh ==
    /\ div_pos = 0
    /\ category_review_data = EmptyMap
    /\ submission_category_diversity = EmptyMap
    /\ reviewer_group = Pending
    /\ same_culture = {}
    /\ different_culture = {}

\* a diversity analysis is started on a reviews document, or
\* _analyze_cultural_distance is called for a reviewer country
DivInit ==
    /\ \/ /\ div_analysis \in DiversityAnalyses
          /\ div_reviews \in DivReviewsDocs
          /\ reviewer_country = None
          /\ target_countries = {}
       \/ /\ div_analysis = "cultural_distance"
          /\ div_reviews = <<>>
          /\ reviewer_country \in DistanceCountries
          /\ target_countries \in SUBSET DistanceCountries
    /\ DivFresh

\* no diversity analysis runs
DivIdle ==
    /\ div_analysis = None
    /\ div_reviews = <<>>
    /\ reviewer_country = None
    /\ target_countries = {}
    /\ DivFresh

\* analyze_gender_diversity / analyze_cultural_diversity /
\* analyze_institutional_diversity: one submission of the loop over the
\* reviews document
AnalyzeSubmissionDiversity ==
    /\ div_analysis \in DiversityAnalyses
    /\ div_pos < Len(div_reviews)
    /\ LET sub == div_reviews[div_pos + 1]
           reviewer_categories ==
               panel_categories(sub.reviews, 1,
                   reviewer_category_map(div_analysis, people_data, institutions_data))
           written == submission_diversity_of(reviewer_categories,
                                              unknown_category(div_analysis))
       IN  /\ category_review_data' =
                  count_categories(category_review_data, reviewer_categories, 1)
           /\ submission_category_diversity' =
                  IF written = <<>> THEN submission_category_diversity
                  ELSE Put(submission_category_diversity, sub.sub_id, written[1])
    /\ div_pos' = div_pos + 1
    /\ UNCHANGED <<div_analysis, div_reviews, reviewer_country, target_countries,
                   reviewer_group, same_culture, different_culture, normVars, convVars,
                   aggVars, rankVars, contentVars, geoVars, ensureVars, anomVars, corrVars,
                   groupVars, biasVars, subVars, retryVars>>

\* _analyze_cultural_distance, lines 395-413: the reviewer's cluster and the
\* target countries rated as same and as different culture
AnalyzeCulturalDistance ==
    /\ div_analysis = "cultural_distance"
    /\ reviewer_group = Pending
    /\ reviewer_group' = cultural_group_of(reviewer_country)
    /\ same_culture' =
           IF reviewer_group' = None THEN {}
           ELSE {t \in target_countries : cultural_group_of(t) = reviewer_group'}
    /\ different_culture' =
           IF reviewer_group' = None THEN {}
           ELSE {t \in target_countries : cultural_group_of(t) \notin {None, reviewer_group'}}
    /\ UNCHANGED <<div_analysis, div_reviews, div_pos, category_review_data,
                   submission_category_diversity, reviewer_country, target_countries, normVars,
                   convVars, aggVars, rankVars, contentVars, geoVars, ensureVars, anomVars,
                   corrVars, groupVars, biasVars, subVars, retryVars>>

\* a ranking is about to be built from the finalized metrics
RankInit ==
    /\ \/ /\ rank_script = "run_affiliation_analysis"
          /\ inst_metrics \in InstMetricsLists
          /\ country_profiles = <<>>
       \/ /\ rank_script = "geographical_analysis"
          /\ inst_metrics = <<>>
          /\ country_profiles \in CountryProfileLists
    /\ rankings = EmptyMap

\* no ranking is built
RankIdle ==
    /\ rank_script = None
    /\ inst_metrics = <<>>
    /\ country_profiles = <<>>
    /\ rankings = EmptyMap

\* run_affiliation_analysis.py: build_rankings(inst_metrics)
BuildRankings ==
    /\ rank_script = "run_affiliation_analysis"
    /\ DOMAIN rankings = {}
    /\ rankings' = build_rankings(inst_metrics)
    /\ UNCHANGED <<rank_script, inst_metrics, country_profiles, normVars, convVars, aggVars,
                   divVars, contentVars, geoVars, ensureVars, anomVars, corrVars, groupVars,
                   biasVars, subVars, retryVars>>

\* geographical_analysis.py: create_geographical_rankings(country_profiles, ...)
CreateGeographicalRankings ==
    /\ rank_script = "geographical_analysis"
    /\ DOMAIN rankings = {}
    /\ rankings' = create_geographical_rankings(country_profiles)
    /\ UNCHANGED <<rank_script, inst_metrics, country_profiles, normVars, convVars, aggVars,
                   divVars, contentVars, geoVars, ensureVars, anomVars, corrVars, groupVars,
                   biasVars, subVars, retryVars>>

\* the content pass is about to be run on a reviews document
ContentInit ==
    /\ content_doc \in ReviewsDocs
    /\ content_reports = <<>>

\* no content pass runs
ContentIdle ==
    /\ content_doc = <<>>
    /\ content_reports = <<>>

\* one run of the anomaly detector's content pass in a process of its own:
\* the interpreter draws its hash key, detect_content_anomalies is called
DetectContentAnomalies ==
    /\ content_doc # <<>>
    /\ Len(content_reports) < MaxRuns
    /\ \E hash_key \in HashKeys :
          content_reports' =
              Append(content_reports, detect_content_anomalies(content_doc, hash_key))
    /\ UNCHANGED <<content_doc, normVars, convVars, aggVars, divVars, rankVars, geoVars,
                   ensureVars, anomVars, corrVars, groupVars, biasVars, subVars, retryVars>>

\* GeographicalAnalyzer.__init__: the documents are loaded, country_data is
\* an empty defaultdict, nothing has been invoked
GeoInit ==
    /\ geo_reviews \in ReviewsDocs
    /\ geo_loaded = TRUE
    /\ country_data = EmptyMap
    /\ geo_results = <<>>

\* no geographical analyzer exists
GeoIdle ==
    /\ geo_reviews = <<>>
    /\ geo_loaded = FALSE
    /\ country_data = EmptyMap
    /\ geo_results = <<>>

\* one invocation on the analyzer object, lines 723-726:
\* analyze_country_characteristics, then calculate_country_metrics on what
\* it returns
AnalyzeCountryCharacteristics ==
    /\ geo_loaded
    /\ Len(geo_results) < MaxInvocations
    /\ country_data' = analyze_country_characteristics(country_data, people_data,
                                                       geo_reviews, InstitutionsDoc)
    /\ geo_results' = Append(geo_results,
                             [country_data     |-> country_data',
                              country_profiles |-> calculate_country_metrics(country_data')])
    /\ UNCHANGED <<geo_reviews, geo_loaded, normVars, convVars, aggVars, divVars, rankVars,
                   contentVars, ensureVars, anomVars, corrVars, groupVars, biasVars, subVars,
                   retryVars>>

\* an empty lookup, as build_inst_lookup starts with
EnsureInit ==
    /\ inst_lookup = EmptyMap
    /\ ensure_calls = 0
    /\ last_ensure = [name |-> None, country |-> None, inst_type |-> None]

\* no lookup is being built
EnsureIdle ==
    /\ inst_lookup = EmptyMap
    /\ ensure_calls = -1
    /\ last_ensure = [name |-> None, country |-> None, inst_type |-> None]

\* one ensure_inst call on the lookup
EnsureInst ==
    /\ ensure_calls >= 0
    /\ ensure_calls < MaxEnsureCalls
    /\ \E name \in EnsureNames, country \in EnsureCountries, inst_type \in EnsureTypes :
          /\ inst_lookup' = ensure_inst(inst_lookup, name, country, inst_type)
          /\ last_ensure' = [name |-> name, country |-> country, inst_type |-> inst_type]
    /\ ensure_calls' = ensure_calls + 1
    /\ UNCHANGED <<normVars, convVars, aggVars, divVars, rankVars, contentVars, geoVars,
                   anomVars, corrVars, groupVars, biasVars, subVars, retryVars>>

\* detect_reviewer_anomalies has collected reviewer_stats
AnomInit ==
    /\ stats_collected \in ReviewerStatsLists
    /\ anomalous_reviewers = EmptyMap

\* no reviewer detection runs
AnomIdle ==
    /\ stats_collected = <<>>
    /\ anomalous_reviewers = EmptyMap

\* detect_reviewer_anomalies, lines 109-231: the detection on the collected
\* statistics
DetectReviewerAnomalies ==
    /\ stats_collected # <<>>
    /\ DOMAIN anomalous_reviewers = {}
    /\ anomalous_reviewers' = detect_reviewer_anomalies(stats_collected)
    /\ UNCHANGED <<stats_collected, normVars, convVars, aggVars, divVars, rankVars,
                   contentVars, geoVars, ensureVars, corrVars, groupVars, biasVars, subVars,
                   retryVars>>

\* a diversity analysis has scored the submissions
CorrInit ==
    /\ submission_diversity_data \in DiversityDataLists
    /\ corr_scored = TRUE
    /\ diversity_correlation = <<>>

\* no correlation is computed
CorrIdle ==
    /\ submission_diversity_data = <<>>
    /\ corr_scored = FALSE
    /\ diversity_correlation = <<>>

\* self._calculate_diversity_correlation(submission_culture_diversity),
\* line 287
CalculateDiversityCorrelation ==
    /\ corr_scored
    /\ diversity_correlation = <<>>
    /\ diversity_correlation' =
          <<calculate_diversity_correlation(submission_diversity_data)>>
    /\ UNCHANGED <<submission_diversity_data, corr_scored, normVars, convVars, aggVars,
                   divVars, rankVars, contentVars, geoVars, ensureVars, anomVars, groupVars,
                   biasVars, subVars, retryVars>>

\* aggregate has folded the reviews into the institutions
GroupInit ==
    /\ reviewer_side \in ReviewerSideLists
    /\ country_type = EmptyMap

\* no group metrics are built
GroupIdle ==
    /\ reviewer_side = <<>>
    /\ country_type = EmptyMap

\* main, lines 569-575: finalize_inst_metrics, then
\* build_country_type_metrics(inst_metrics)
BuildCountryTypeMetrics ==
    /\ reviewer_side # <<>>
    /\ DOMAIN country_type = {}
    /\ country_type' = build_country_type_metrics(finalize_inst_metrics(reviewer_side))
    /\ UNCHANGED <<reviewer_side, normVars, convVars, aggVars, divVars, rankVars, contentVars,
                   geoVars, ensureVars, anomVars, corrVars, biasVars, subVars, retryVars>>

\* the geographical analyzer has loaded its documents and computed the
\* country profiles
BiasInit ==
    /\ bias_reviews \in BiasDocs
    /\ bias_profiles \in BiasProfiles
    /\ cross_country = <<>>
    /\ geographical_bias = <<>>

\* no geographical bias is computed
BiasIdle ==
    /\ bias_reviews = <<>>
    /\ bias_profiles = {}
    /\ cross_country = <<>>
    /\ geographical_bias = <<>>

\* run_analysis, line 729: analyze_cross_country_interactions
AnalyzeCrossCountryInteractions ==
    /\ bias_profiles # {}
    /\ cross_country = <<>>
    /\ cross_country' = <<analyze_cross_country_interactions(BiasPeople, bias_reviews)>>
    /\ UNCHANGED <<bias_reviews, bias_profiles, geographical_bias, normVars, convVars, aggVars,
                   divVars, rankVars, contentVars, geoVars, ensureVars, anomVars, corrVars,
                   groupVars, subVars, retryVars>>

\* run_analysis, line 732: detect_geographical_bias on what
\* analyze_cross_country_interactions returned
DetectGeographicalBias ==
    /\ cross_country # <<>>
    /\ geographical_bias = <<>>
    /\ geographical_bias' = <<detect_geographical_bias(cross_country[1].cross_country_matrix,
                                                       cross_country[1].same_country_reviews,
                                                       bias_profiles)>>
    /\ UNCHANGED <<bias_reviews, bias_profiles, cross_country, normVars, convVars, aggVars,
                   divVars, rankVars, contentVars, geoVars, ensureVars, anomVars, corrVars,
                   groupVars, subVars, retryVars>>

\* the anomaly detector has loaded a reviews document
SubInit ==
    /\ scored_doc \in ScoredDocs
    /\ submission_anomalies = <<>>

\* no submission anomalies are detected
SubIdle ==
    /\ scored_doc = <<>>
    /\ submission_anomalies = <<>>

\* detect_submission_anomalies, lines 246-382
DetectSubmissionAnomalies ==
    /\ scored_doc \in ScoredDocs
    /\ submission_anomalies = <<>>
    /\ submission_anomalies' = <<detect_submission_anomalies(scored_doc)>>
    /\ UNCHANGED <<scored_doc, normVars, convVars, aggVars, divVars, rankVars, contentVars,
                   geoVars, ensureVars, anomVars, corrVars, groupVars, biasVars, retryVars>>

\* get_profiles_with_retry is called on a batch: the loop is at its first
\* attempt
RetryInit ==
    /\ batch_ids \in BatchIds
    /\ retry_pc = "calling"
    /\ attempt = 0
    /\ api_calls = 0
    /\ error_str = None
    /\ wait_time = 0
    /\ retry_result = <<>>

\* get_profiles_with_retry is not called
RetryIdle ==
    /\ batch_ids = <<>>
    /\ retry_pc = "idle"
    /\ attempt = 0
    /\ api_calls = 0
    /\ error_str = None
    /\ wait_time = 0
    /\ retry_result = <<>>

\* line 53 (line 172): openreview.tools.get_profiles returns the profiles it
\* found for the batch, and the function returns them
GetProfilesReturns ==
    /\ retry_pc = "calling"
    /\ \E found \in SUBSET Range(batch_ids) :
          retry_result' = <<SelectSeq(batch_ids, LAMBDA id : id \in found)>>
    /\ api_calls' = api_calls + 1
    /\ retry_pc' = "returned"
    /\ UNCHANGED <<batch_ids, attempt, error_str, wait_time, normVars, convVars, aggVars,
                   divVars, rankVars, contentVars, geoVars, ensureVars, anomVars, corrVars,
                   groupVars, biasVars, subVars>>

\* lines 54-69 (lines 173-189): the call raises an OpenReviewException; a
\* rate-limit message starts the pause, another message ends the function
\* with an empty list
OpenReviewExceptionRaised ==
    /\ retry_pc = "calling"
    /\ \E e \in ApiErrors :
          /\ error_str' = e.text
          /\ IF is_rate_limit(e.text)
             THEN /\ wait_time' = wait_time_of(e.text)
                  /\ retry_pc' = "sleeping"
                  /\ retry_result' = retry_result
             ELSE /\ wait_time' = wait_time
                  /\ retry_pc' = "returned"
                  /\ retry_result' = << <<>> >>
    /\ api_calls' = api_calls + 1
    /\ UNCHANGED <<batch_ids, attempt, normVars, convVars, aggVars, divVars, rankVars,
                   contentVars, geoVars, ensureVars, anomVars, corrVars, groupVars, biasVars,
                   subVars>>

\* line 54 (line 173): the except clause names openreview.OpenReviewException
\* only; an exception of another class leaves the function
OtherExceptionRaised ==
    /\ retry_pc = "calling"
    /\ error_str' \in OtherExceptions
    /\ api_calls' = api_calls + 1
    /\ retry_pc' = "raised"
    /\ UNCHANGED <<batch_ids, attempt, wait_time, retry_result, normVars, convVars, aggVars,
                   divVars, rankVars, contentVars, geoVars, ensureVars, anomVars, corrVars,
                   groupVars, biasVars, subVars>>

\* line 66 (line 185): time.sleep returns and the loop goes to its next
\* attempt; after the last one the function returns an empty list (lines
\* 71-72, lines 191-192)
SleepReturns ==
    /\ retry_pc = "sleeping"
    /\ attempt' = attempt + 1
    /\ IF attempt + 1 < max_retries
       THEN /\ retry_pc' = "calling"
            /\ retry_result' = retry_result
       ELSE /\ retry_pc' = "returned"
            /\ retry_result' = << <<>> >>
    /\ UNCHANGED <<batch_ids, api_calls, error_str, wait_time, normVars, convVars, aggVars,
                   divVars, rankVars, contentVars, geoVars, ensureVars, anomVars, corrVars,
                   groupVars, biasVars, subVars>>

\* ------------------------------------------------------------------------
\* Specifications
\* ------------------------------------------------------------------------

NormNext == \/ NormalizeInstitution
            \/ Renormalize
            \/ NormalizeCountry
            \/ InferInstitutionType

\* the normalisers applied to one input
InitNorm ==
    NormInit /\ ConvInit /\ AggIdle /\ DivIdle /\ RankIdle /\ ContentIdle /\ GeoIdle
    /\ EnsureIdle /\ AnomIdle /\ CorrIdle /\ GroupIdle /\ BiasIdle /\ SubIdle /\ RetryIdle

SpecNorm == InitNorm /\ [][NormNext]_vars

ConvNext == \/ SkipLine
            \/ BeginSubmission
            \/ ProcessAuthor
            \/ ProcessReview
            \/ EmitSubmission

\* one run of convert_data.py
InitConv ==
    NormIdle /\ ConvInit /\ AggIdle /\ DivIdle /\ RankIdle /\ ContentIdle /\ GeoIdle
    /\ EnsureIdle /\ AnomIdle /\ CorrIdle /\ GroupIdle /\ BiasIdle /\ SubIdle /\ RetryIdle

SpecConv == InitConv /\ [][ConvNext]_vars

AggNext == \/ StartAggregate
           \/ AggregateSubmission
           \/ CollectReviewerStats
           \/ CollectSubmissionStats

\* one run of an analysis script over the converted documents
InitAgg ==
    NormIdle /\ ConvInit /\ AggInit /\ DivIdle /\ RankIdle /\ ContentIdle /\ GeoIdle
    /\ EnsureIdle /\ AnomIdle /\ CorrIdle /\ GroupIdle /\ BiasIdle /\ SubIdle /\ RetryIdle

SpecAgg == InitAgg /\ [][AggNext]_vars


DivNext == \/ AnalyzeSubmissionDiversity
           \/ AnalyzeCulturalDistance

\* one diversity analysis, or one call of _analyze_cultural_distance
InitDiv ==
    NormIdle /\ ConvInit /\ AggIdle /\ DivInit /\ RankIdle /\ ContentIdle /\ GeoIdle
    /\ EnsureIdle /\ AnomIdle /\ CorrIdle /\ GroupIdle /\ BiasIdle /\ SubIdle /\ RetryIdle

SpecDiv == InitDiv /\ [][DivNext]_vars

RankNext == \/ BuildRankings
            \/ CreateGeographicalRankings

\* the rankings of one script are built
InitRank ==
    NormIdle /\ ConvInit /\ AggIdle /\ DivIdle /\ RankInit /\ ContentIdle /\ GeoIdle
    /\ EnsureIdle /\ AnomIdle /\ CorrIdle /\ GroupIdle /\ BiasIdle /\ SubIdle /\ RetryIdle

SpecRank == InitRank /\ [][RankNext]_vars

ContentNext == DetectContentAnomalies

\* the runs of the content pass on one document
InitContent ==
    NormIdle /\ ConvInit /\ AggIdle /\ DivIdle /\ RankIdle /\ ContentInit /\ GeoIdle
    /\ EnsureIdle /\ AnomIdle /\ CorrIdle /\ GroupIdle /\ BiasIdle /\ SubIdle /\ RetryIdle

SpecContent == InitContent /\ [][ContentNext]_vars

GeoNext == AnalyzeCountryCharacteristics

\* the invocations of the geographical analysis on one analyzer object
InitGeo ==
    NormIdle /\ ConvInit /\ AggIdle /\ DivIdle /\ RankIdle /\ ContentIdle /\ GeoInit
    /\ EnsureIdle /\ AnomIdle /\ CorrIdle /\ GroupIdle /\ BiasIdle /\ SubIdle /\ RetryIdle

SpecGeo == InitGeo /\ [][GeoNext]_vars

EnsureNext == EnsureInst

\* the ensure_inst calls on one lookup
InitEnsure ==
    NormIdle /\ ConvInit /\ AggIdle /\ DivIdle /\ RankIdle /\ ContentIdle /\ GeoIdle
    /\ EnsureInit /\ AnomIdle /\ CorrIdle /\ GroupIdle /\ BiasIdle /\ SubIdle /\ RetryIdle

SpecEnsure == InitEnsure /\ [][EnsureNext]_vars

AnomNext == DetectReviewerAnomalies

\* the detection stage of detect_reviewer_anomalies
InitAnom ==
    NormIdle /\ ConvInit /\ AggIdle /\ DivIdle /\ RankIdle /\ ContentIdle /\ GeoIdle
    /\ EnsureIdle /\ AnomInit /\ CorrIdle /\ GroupIdle /\ BiasIdle /\ SubIdle /\ RetryIdle

SpecAnom == InitAnom /\ [][AnomNext]_vars

CorrNext == CalculateDiversityCorrelation

\* the correlation of diversity and review quality
InitCorr ==
    NormIdle /\ ConvInit /\ AggIdle /\ DivIdle /\ RankIdle /\ ContentIdle /\ GeoIdle
    /\ EnsureIdle /\ AnomIdle /\ CorrInit /\ GroupIdle /\ BiasIdle /\ SubIdle /\ RetryIdle

SpecCorr == InitCorr /\ [][CorrNext]_vars

GroupNext == BuildCountryTypeMetrics

\* the metrics by country and by institution type
InitGroup ==
    NormIdle /\ ConvInit /\ AggIdle /\ DivIdle /\ RankIdle /\ ContentIdle /\ GeoIdle
    /\ EnsureIdle /\ AnomIdle /\ CorrIdle /\ GroupInit /\ BiasIdle /\ SubIdle /\ RetryIdle

SpecGroup == InitGroup /\ [][GroupNext]_vars

BiasNext == AnalyzeCrossCountryInteractions \/ DetectGeographicalBias

\* the cross-country interactions and the geographical bias
InitBias ==
    NormIdle /\ ConvInit /\ AggIdle /\ DivIdle /\ RankIdle /\ ContentIdle /\ GeoIdle
    /\ EnsureIdle /\ AnomIdle /\ CorrIdle /\ GroupIdle /\ BiasInit /\ SubIdle /\ RetryIdle

SpecBias == InitBias /\ [][BiasNext]_vars

SubNext == DetectSubmissionAnomalies

\* the submission anomalies of a reviews document
InitSub ==
    NormIdle /\ ConvInit /\ AggIdle /\ DivIdle /\ RankIdle /\ ContentIdle /\ GeoIdle
    /\ EnsureIdle /\ AnomIdle /\ CorrIdle /\ GroupIdle /\ BiasIdle /\ SubInit /\ RetryIdle

SpecSub == InitSub /\ [][SubNext]_vars

RetryNext == \/ GetProfilesReturns
             \/ OpenReviewExceptionRaised
             \/ OtherExceptionRaised
             \/ SleepReturns

\* one call of get_profiles_with_retry
InitRetry ==
    NormIdle /\ ConvInit /\ AggIdle /\ DivIdle /\ RankIdle /\ ContentIdle /\ GeoIdle
    /\ EnsureIdle /\ AnomIdle /\ CorrIdle /\ GroupIdle /\ BiasIdle /\ SubIdle /\ RetryInit

SpecRetry == InitRetry /\ [][RetryNext]_vars
\* ------------------------------------------------------------------------
\* Properties of the identity graph builder (SpecConv)
\* ------------------------------------------------------------------------

\* C1: over the process_person calls on one person id the nationality is
\* monotone in known-ness: a stored value other than "Unknown" is never
\* changed, a stored "Unknown" is replaced by the first sighting whose
\* normalised country is known, and the number of known fields (nationality,
\* primary institution) of a person never decreases.
C1_KnownnessMonotone ==
    [][ LET KnownFields(p) ==
                (IF p.nationality # "Unknown" THEN 1 ELSE 0)
                + (IF p.institution # "Unknown Institution" THEN 1 ELSE 0)
        IN  /\ \A pid \in DOMAIN people :
                  /\ pid \in DOMAIN people'
                  /\ people[pid].nationality # "Unknown"
                        => people'[pid].nationality = people[pid].nationality
                  /\ KnownFields(people'[pid]) >= KnownFields(people[pid])
            /\ (person_calls' = person_calls + 1 /\ last_sighting'.id \in DOMAIN people)
                  => LET pid         == last_sighting'.id
                         country_val == normalize_country(last_sighting'.country)
                     IN  (people[pid].nationality = "Unknown" /\ country_val # "Unknown")
                            => people'[pid].nationality = country_val
      ]_vars

\* a person with a known nationality has just been sighted again without
\* country, and the nationality is still there
C1_KnownKeptWitness ==
    /\ "~Ann_Lee1" \in DOMAIN people
    /\ last_sighting.id = "~Ann_Lee1"
    /\ last_sighting.country = None
    /\ Len(people["~Ann_Lee1"].authored_papers)
         + Len(people["~Ann_Lee1"].reviewed_papers) >= 2
    /\ people["~Ann_Lee1"].nationality = "China"

\* C2: an institution's country is filled once and locked: a stored known
\* country is never replaced (neither by "Unknown" nor by a different
\* country), and a sighting whose override-adjusted country is known replaces
\* a stored "Unknown".
C2_InstitutionCountryLocked ==
    [][ /\ \A inst \in DOMAIN institutions_map :
              /\ inst \in DOMAIN institutions_map'
              /\ institutions_map[inst].country # "Unknown"
                    => institutions_map'[inst].country = institutions_map[inst].country
        /\ ( /\ person_calls' = person_calls + 1
             /\ ~Falsy(last_sighting'.id)
             /\ inst_name_of(last_sighting') \in DOMAIN institutions_map )
              => LET inst     == inst_name_of(last_sighting')
                     stored   == institutions_map[inst].country
                     inferred == infer_country_for_institution(
                                     inst, normalize_country(last_sighting'.country))
                 IN  /\ (stored = "Unknown" /\ inferred # "Unknown")
                            => institutions_map'[inst].country = inferred
                     /\ inferred = "Unknown"
                            => institutions_map'[inst].country = stored
      ]_vars

\* an institution stored with a country has just been sighted with another
\* country, and the stored one is still there
C2_LockedWitness ==
    /\ "MIT" \in DOMAIN institutions_map
    /\ institutions_map["MIT"].country = "China"
    /\ last_sighting.id = "~Ann_Lee1"
    /\ last_sighting.institution = "MIT"
    /\ last_sighting.country = "France"

\* C3: two distinct reviews that both lack a reviewer id never get the same
\* synthetic reviewer id, in the same submission or in different ones.
C3_SyntheticIdsDistinct ==
    LET emitted == UNION { { <<s, k>> : k \in DOMAIN reviews_output[s].reviews } :
                           s \in DOMAIN reviews_output }
        Review(e) == reviews_output[e[1]].reviews[e[2]]
        Anonymous(e) == At(Review(e).reviewer_id, 1, "anonymous_reviewer_")
    IN  \A e1 \in emitted, e2 \in emitted :
           ( /\ Review(e1).review_id # Review(e2).review_id
             /\ Anonymous(e1)
             /\ Anonymous(e2) )
              => Review(e1).reviewer_id # Review(e2).reviewer_id

\* ------------------------------------------------------------------------
\* Properties of the aggregation passes (SpecAgg)
\* ------------------------------------------------------------------------

\* C4: no review is dropped or pooled for lacking a reviewer identity: when
\* a per-reviewer pass (detect_reviewer_anomalies, aggregate) is through the
\* document, there is one bucket per known reviewer id and one more for every
\* review without reviewer id.
C4_EveryReviewHasBucket ==
    LET all_reviews == UNION { { <<s, k>> : k \in DOMAIN reviews_doc[s].reviews } :
                               s \in DOMAIN reviews_doc }
        Id(e)     == reviews_doc[e[1]].reviews[e[2]].reviewer_id
        known_ids == { Id(e) : e \in { x \in all_reviews : ~Falsy(Id(x)) } }
        id_less   == { e \in all_reviews : Falsy(Id(e)) }
        buckets   == Cardinality(known_ids) + Cardinality(id_less)
    IN  /\ (script = "anomaly_detection" /\ rev_pos = Len(reviews_doc))
              => Cardinality(DOMAIN reviewer_stats) = buckets
        /\ (script = "run_affiliation_analysis" /\ agg_pos = Len(reviews_doc))
              => Cardinality(DOMAIN agg.reviewer_metrics) = buckets

\* C5: a submission whose reviews list is empty adds nothing to any bucket
\* or counter of the aggregation passes.
C5_EmptySubmissionAddsNothing ==
    [][ /\ ( /\ agg_pos >= 0
             /\ agg_pos' = agg_pos + 1
             /\ reviews_doc[agg_pos'].reviews = <<>> ) => agg' = agg
        /\ ( /\ rev_pos' = rev_pos + 1
             /\ reviews_doc[rev_pos'].reviews = <<>> ) => reviewer_stats' = reviewer_stats
        /\ ( /\ sub_pos' = sub_pos + 1
             /\ reviews_doc[sub_pos'].reviews = <<>> ) => submission_stats' = submission_stats
      ]_vars

\* ------------------------------------------------------------------------
\* Properties of the entity normaliser (SpecNorm)
\* ------------------------------------------------------------------------

\* C6: normalize_institution is idempotent: applied to its own result it
\* returns that result.
C6_Idempotent ==
    canonical2 # Pending => canonical2 = canonical

\* C7: normalize_institution and normalize_country never return null or the
\* empty string, whatever the input.
C7_NeverNullOrEmpty ==
    /\ canonical # Pending => canonical \notin {None, ""}
    /\ country_norm # Pending => country_norm \notin {None, ""}

\* the (campus or branch rule, generic rule) pairs, as positions in the rule
\* list: Tsinghua-Berkeley (line 47) and Berkeley (49) or Tsinghua (102),
\* HKUST Guangzhou (52) and HKUST (53), CUHK Shenzhen (56) and CUHK (57),
\* UCAS (112) and CAS (114)
CampusPairs == { <<1, 3>>, <<1, 46>>, <<4, 5>>, <<6, 7>>, <<56, 57>> }

\* C8 (as the code has it): normalize_institution returns the canonical name
\* of the first rule of the list that matches the cleaned name; every campus
\* or branch rule stands before its generic rule, so a name matching both is
\* mapped to the campus-specific canonical name unless a rule standing even
\* earlier in the list matches it too.
C8_FirstRuleWins ==
    (canonical # Pending /\ ~Falsy(raw_name)) =>
        LET hits == MatchingRules(clean_raw(raw_name))
        IN  /\ hits # {} =>
                  \E k \in hits : /\ \A j \in hits : k <= j
                                  /\ canonical = rules[k].canon
            /\ \A pair \in CampusPairs :
                  /\ pair[1] < pair[2]
                  /\ ( /\ pair[1] \in hits
                       /\ pair[2] \in hits
                       /\ \A j \in hits : pair[1] <= j )
                        => canonical = rules[pair[1]].canon

\* a name with a typo that matches the HKUST Guangzhou rule and the HKUST
\* rule has been mapped to the Guangzhou campus
C8_CampusWitness ==
    /\ raw_name = "HKUSTGuang Zhou"
    /\ {4, 5} \subseteq MatchingRules(clean_raw(raw_name))
    /\ canonical = "Hong Kong University of Science and Technology (Guangzhou)"

\* C8 as stated: every name that matches a campus or branch rule and its
\* generic rule is mapped to the campus-specific canonical name.
C8_CampusAlwaysWins ==
    (canonical # Pending /\ ~Falsy(raw_name)) =>
        LET hits == MatchingRules(clean_raw(raw_name))
        IN  \A pair \in CampusPairs :
               (pair[1] \in hits /\ pair[2] \in hits)
                  => canonical = rules[pair[1]].canon

\* the short acronyms C9 lists, lower-cased as the rules compare them
ShortAcronyms ==
    {"intel", "meta", "mit", "hit", "kit", "tum", "lmu", "eth", "snu", "nju", "zju", "cas"}

\* C9: a short-acronym rule matches only at word boundaries: a name in which
\* the acronym's letters occur, but never as a word of their own, and which
\* no other alternative of a rule for the same institution matches, is not
\* mapped to the acronym's canonical institution.
C9_AcronymsAtWordBoundaries ==
    (canonical # Pending /\ ~Falsy(raw_name)) =>
        LET s == Lower(FirstLine(clean_raw(raw_name)))
            WholeWord(w) == \E i \in 1..Len(s) : /\ At(s, i, w)
                                                 /\ Boundary(s, i - 1)
                                                 /\ Boundary(s, i + Len(w) - 1)
            Justified(canon) ==
                \E j \in DOMAIN rules :
                    /\ rules[j].canon = canon
                    /\ \E a \in rules[j].alts :
                          /\ AltMatches(s, a)
                          /\ a.parts[1] \in ShortAcronyms => WholeWord(a.parts[1])
        IN  \A k \in DOMAIN rules : \A alt \in rules[k].alts :
               ( /\ alt.parts[1] \in ShortAcronyms
                 /\ Contains(s, alt.parts[1])
                 /\ ~WholeWord(alt.parts[1])
                 /\ ~Justified(rules[k].canon) )
                  => canonical # rules[k].canon

\* C10: for a non-empty name infer_institution_type returns "University" only
\* if the name has a university keyword and no company keyword, "Company"
\* only if it has a company keyword and no university keyword, and "Other"
\* in every other case (keywords of both sets, or of neither).
C10_TypeByKeywordSets ==
    (inferred_type # Pending /\ ~Falsy(raw_name)) =>
        LET lower == Lower(raw_name)
            univ  == \E k \in DOMAIN UNIV_KEYWORDS : Contains(lower, UNIV_KEYWORDS[k])
            corp  == \E k \in DOMAIN COMPANY_KEYWORDS : Contains(lower, COMPANY_KEYWORDS[k])
        IN  inferred_type = IF univ /\ ~corp THEN "University"
                            ELSE IF corp /\ ~univ THEN "Company"
                            ELSE "Other"

\* ------------------------------------------------------------------------
\* Further properties of the identity graph builder (SpecConv)
\* ------------------------------------------------------------------------

\* C11: over the process_person calls on one person id the stored role set
\* is the union of the roles passed: a call with role r on pid leaves the
\* roles stored before plus r (so none is lost and none is invented), no other
\* step touches the person's role, and after the call the person is an author
\* exactly if an author sighting was recorded (authored_papers) and a
\* reviewer exactly if a reviewer sighting was (reviewed_papers).
C11_RolesAreUnion ==
    [][ LET Roles(role) == LET pieces == Split(role, ",")
                           IN  {pieces[k] : k \in DOMAIN pieces} \ {""}
            Sighted(p) == (IF p.authored_papers # <<>> THEN {"author"} ELSE {})
                          \cup (IF p.reviewed_papers # <<>> THEN {"reviewer"} ELSE {})
            passed == IF authors_left' = authors_left - 1 THEN "author" ELSE "reviewer"
        IN  \A pid \in DOMAIN people \cup DOMAIN people' :
               /\ pid \in DOMAIN people'
               /\ LET before == IF pid \in DOMAIN people THEN people[pid].role ELSE ""
                  IN  IF person_calls' = person_calls + 1 /\ last_sighting'.id = pid
                      THEN /\ Roles(people'[pid].role) = Roles(before) \cup {passed}
                           /\ Roles(people'[pid].role) = Sighted(people'[pid])
                      ELSE people'[pid].role = before
      ]_vars

\* a person sighted as author and then as reviewer holds both roles
C11_BothRolesWitness ==
    /\ "~Ann_Lee1" \in DOMAIN people
    /\ people["~Ann_Lee1"].authored_papers # <<>>
    /\ people["~Ann_Lee1"].reviewed_papers # <<>>
    /\ people["~Ann_Lee1"].role = "author,reviewer"

\* C12: a person's institutions list is append-only and deduplicated by
\* canonical form: the list before a step is a prefix of the list after it,
\* "Unknown Institution" is never an entry, and no two entries have the same
\* canonical form (normalize_institution).
C12_InstitutionsAppendOnlyCanonical ==
    [][ /\ \A pid \in DOMAIN people :
              /\ pid \in DOMAIN people'
              /\ Len(people[pid].institutions) <= Len(people'[pid].institutions)
              /\ \A k \in DOMAIN people[pid].institutions :
                    people'[pid].institutions[k] = people[pid].institutions[k]
        /\ \A pid \in DOMAIN people' :
              LET inst_list == people'[pid].institutions
              IN  /\ \A k \in DOMAIN inst_list : inst_list[k] # "Unknown Institution"
                  /\ \A j \in DOMAIN inst_list, k \in DOMAIN inst_list :
                        normalize_institution(inst_list[j]) = normalize_institution(inst_list[k])
                           => j = k
      ]_vars

\* ------------------------------------------------------------------------
\* Further properties of the aggregation passes (SpecAgg)
\* ------------------------------------------------------------------------

\* C13: in aggregate every review is folded exactly once into the
\* reviewer-side bucket of each institution of its reviewer and into no other
\* bucket: after the submissions 1..agg_pos, the bucket of an institution
\* holds as many ratings as there are reviews so far whose reviewer belongs to
\* it, where a reviewer without known institution (none listed, or only the
\* "Unknown Institution" placeholder) belongs to "unknown".
C13_FoldedOncePerInstitution ==
    (script = "run_affiliation_analysis" /\ agg_pos >= 0) =>
        LET InstsOf(rev) ==
                LET rid   == reviewer_key(rev)
                    insts == IF rid \in DOMAIN people_doc.people
                             THEN SelectSeq(listed_institutions(people_doc.people[rid]),
                                            LAMBDA i : i # "Unknown Institution")
                             ELSE <<>>
                IN  IF insts = <<>> THEN {"unknown"}
                    ELSE {normalize_inst_name(insts[k]) : k \in DOMAIN insts}
            folded == UNION { { <<s, k>> : k \in DOMAIN reviews_doc[s].reviews } :
                              s \in 1..agg_pos }
            ReviewsOf(inst) ==
                { e \in folded : inst \in InstsOf(reviews_doc[e[1]].reviews[e[2]]) }
        IN  /\ \A inst \in DOMAIN agg.inst_reviewer_metrics :
                  Len(agg.inst_reviewer_metrics[inst].ratings) = Cardinality(ReviewsOf(inst))
            /\ \A e \in folded : \A inst \in InstsOf(reviews_doc[e[1]].reviews[e[2]]) :
                  inst \in DOMAIN agg.inst_reviewer_metrics

\* ------------------------------------------------------------------------
\* Properties of the diversity analyses (SpecDiv)
\* ------------------------------------------------------------------------

\* C14: the cultural clusters overlap and a reviewer counts in every cluster
\* that lists the reviewer's country: in analyze_cultural_diversity the
\* review_count of a cluster is the number of reviews analysed so far whose
\* reviewer's country the cluster lists, and in _analyze_cultural_distance a
\* target country is rated as same culture whenever some cluster lists both
\* the reviewer's country and the target.
C14_CountedInEveryCluster ==
    /\ div_analysis = "cultural" =>
          LET analysed == UNION { { <<s, k>> : k \in DOMAIN div_reviews[s].reviews } :
                                  s \in 1..div_pos }
              Country(e) == LET rid == div_reviews[e[1]].reviews[e[2]].reviewer_id
                            IN  IF rid \in DOMAIN people_data
                                THEN people_data[rid].nationality ELSE None
          IN  \A g \in DOMAIN cultural_groups :
                 Get(category_review_data, cultural_groups[g].culture, 0)
                    = Cardinality({e \in analysed : Country(e) \in cultural_groups[g].countries})
    /\ (div_analysis = "cultural_distance" /\ reviewer_group # Pending) =>
          \A g \in clusters_listing(reviewer_country) :
             \A t \in target_countries \cap cultural_groups[g].countries :
                t \in same_culture

\* C15: a submission has a diversity entry only if at least 2 of its
\* reviewers have a known category (not "Unknown" for gender and institution
\* type, not "Other" for culture), and the score of an entry is the number of
\* distinct known categories divided by the number of reviewers with a known
\* category.
C15_ScoreNeedsTwoKnown ==
    div_analysis \in DiversityAnalyses =>
        \A s \in DOMAIN submission_category_diversity :
           LET entry == submission_category_diversity[s]
               known == SelectSeq(entry.reviewer_categories,
                                  LAMBDA c : c # unknown_category(div_analysis))
           IN  /\ Len(known) >= 2
               /\ entry.diversity_score[1] * Len(known)
                     = entry.diversity_score[2] * Cardinality({known[k] : k \in DOMAIN known})

\* ------------------------------------------------------------------------
\* Properties of the rankings (SpecRank)
\* ------------------------------------------------------------------------

\* C16: every entity in a ranking has at least 20 reviewers: each country in
\* a leaderboard of create_geographical_rankings, and each institution in a
\* ranking of build_rankings.
C16_RankedHaveTwentyReviewers ==
    /\ rank_script = "geographical_analysis" =>
          \A board \in DOMAIN rankings : \A k \in DOMAIN rankings[board] :
             rankings[board][k].academic_scale.num_reviewers >= 20
    /\ rank_script = "run_affiliation_analysis" =>
          \A board \in DOMAIN rankings : \A k \in DOMAIN rankings[board] :
             \A m \in DOMAIN inst_metrics :
                inst_metrics[m].institution = rankings[board][k].institution
                   => inst_metrics[m].reviewer_count >= 20

\* C17: rankings are ordered deterministically under ties: of two
\* neighbours of a leaderboard with the same primary key, the one with the
\* larger review / reviewer count stands first, and with the same count the
\* one with the smaller identifier.
C17_TiesBrokenByCountThenId ==
    LET Index(id) == CHOOSE k \in DOMAIN RankedIds(rank_script) :
                         RankedIds(rank_script)[k] = id
        Ordered(key1, count1, id1, key2, count2, id2) ==
            key1 = key2 => \/ count1 > count2
                           \/ count1 = count2 /\ Index(id1) < Index(id2)
    IN  /\ rank_script = "run_affiliation_analysis" =>
              \A board \in DOMAIN rankings : \A k \in 1..(Len(rankings[board]) - 1) :
                 LET a == rankings[board][k]
                     b == rankings[board][k + 1]
                 IN  Ordered(a.avg_rating, a.review_count, a.institution,
                             b.avg_rating, b.review_count, b.institution)
        /\ rank_script = "geographical_analysis" =>
              \A board \in {"most_strict", "most_lenient"} \cap DOMAIN rankings :
                 \A k \in 1..(Len(rankings[board]) - 1) :
                    LET a == rankings[board][k]
                        b == rankings[board][k + 1]
                    IN  Ordered(a.country_scores.strictness_score,
                                a.academic_scale.num_reviewers, a.country,
                                b.country_scores.strictness_score,
                                b.academic_scale.num_reviewers, b.country)


\* C18: the analysis is deterministic: the runs of the content pass on
\* the same document leave identical reports, the duplicate_content entries
\* and their content_hash values included.
C18_RunsLeaveIdenticalReports ==
    \A i, j \in DOMAIN content_reports : content_reports[i] = content_reports[j]

\* C19: one bad or incomplete record never aborts a run: no exception
\* leaves the content pass, whatever the sections of a review hold.
C19_NoExceptionLeavesThePass ==
    \A i \in DOMAIN content_reports : content_reports[i].raised = None

\* C20: the analyses carry no state across invocations: every later
\* invocation on the same analyzer object and dataset returns the same
\* country aggregates and profiles as the first.
C20_SecondInvocationSameResult ==
    \A i \in DOMAIN geo_results : geo_results[i] = geo_results[1]

\* ------------------------------------------------------------------------
\* The documents between the conversion and the analyzers (SpecConv)
\* ------------------------------------------------------------------------

\* C21: the people document the conversion writes is the one the analyzers
\* read: every person recorded with a role is recognised in that role by the
\* analyzers ('reviewer' in roles, 'author' in roles), and the institutions
\* recorded for the person are the affiliations the analyzers use.
C21_AnalyzersReadWhatConversionWrites ==
    \A pid \in DOMAIN people :
       LET pieces == Split(people[pid].role, ",")
       IN  /\ \A k \in DOMAIN pieces :
                 pieces[k] # "" => has_role(people, pid, pieces[k])
           /\ affiliations_of(people[pid]) = people[pid].institutions

\* ------------------------------------------------------------------------
\* The institution lookup (SpecEnsure)
\* ------------------------------------------------------------------------

\* C22: in the lookup kept by ensure_inst, country and institution type are
\* first-non-unknown-wins: a stored known value is never replaced or cleared,
\* and a stored unknown value (missing, null or "Unknown") is replaced by the
\* value of the call when the call is on the entry's key and supplies a known
\* one.
C22_FirstKnownWins ==
    [][ LET Known(value) == value \notin {None, "", "Unknown"}
            Kept(before, after, supplied, called) ==
                /\ Known(before) => after = before
                /\ (~Known(before) /\ called /\ Known(supplied)) => after = supplied
        IN  \A norm \in DOMAIN inst_lookup :
               LET called == normalize_inst_name(last_ensure'.name) = norm
               IN  /\ norm \in DOMAIN inst_lookup'
                   /\ Kept(inst_lookup[norm].country, inst_lookup'[norm].country,
                           last_ensure'.country, called)
                   /\ Kept(inst_lookup[norm].institution_type,
                           inst_lookup'[norm].institution_type,
                           last_ensure'.inst_type, called)
      ]_vars

\* ------------------------------------------------------------------------
\* The detection stage of detect_reviewer_anomalies (SpecAnom)
\* ------------------------------------------------------------------------

\* C23: a reviewer with at least 3 reviews is in outlier_reviewers exactly
\* when the largest of the absolute z-scores of its average rating (if it has
\* ratings), its average confidence (if it has confidences) and its average
\* text length, each against the global mean and standard deviation, is
\* strictly greater than 3.
C23_OutlierIffMaxZAboveThree ==
    DOMAIN anomalous_reviewers # {} =>
        \A k \in DOMAIN stats_collected :
           LET r == stats_collected[k]
               ZAbove3(field) ==
                   /\ r[field] # <<>>
                   /\ mean_beyond(Sum(r[field]), Len(r[field]),
                                  extend_all(stats_collected, field), 3, 1, "either")
           IN  r.review_count >= 3 =>
                  ((\E j \in DOMAIN anomalous_reviewers.outlier_reviewers :
                       anomalous_reviewers.outlier_reviewers[j].reviewer_id = r.reviewer_id)
                   <=> (ZAbove3("ratings") \/ ZAbove3("confidences")
                        \/ ZAbove3("text_lengths")))

\* C24: each category list of anomalous_reviewers is sorted descending by
\* the category's own deviation metric (the deviation of the average rating,
\* the spread of the ratings, the shortness of the reviews, the height and
\* the lowness of the average confidence, the z-score), ties broken by
\* review_count descending, and holds at most 20 (deviation-ranked) or 15
\* (count-ranked) entries.
C24_ListsSortedByOwnDeviation ==
    DOMAIN anomalous_reviewers # {} =>
        LET Stat(id) == stats_collected[CHOOSE k \in DOMAIN stats_collected :
                                           stats_collected[k].reviewer_id = id]
            Squares(values) == Sum([k \in DOMAIN values |-> values[k] * values[k]])
            Metric(category, entry) ==
                LET r == Stat(entry.reviewer_id)
                IN  CASE category \in {"extreme_raters", "outlier_reviewers"} ->
                            <<entry.key, 1>>
                      [] category = "inconsistent_raters" ->
                            <<Len(r.ratings) * Squares(r.ratings)
                                - Sum(r.ratings) * Sum(r.ratings),
                              Len(r.ratings) * Len(r.ratings)>>
                      [] category = "low_effort_reviewers" ->
                            <<0 - Sum(r.text_lengths), Len(r.text_lengths)>>
                      [] category = "over_confident" ->
                            <<avg_or_zero(r.confidences).sum, avg_or_zero(r.confidences).n>>
                      [] category = "under_confident" ->
                            <<0 - avg_or_zero(r.confidences).sum, avg_or_zero(r.confidences).n>>
            InOrder(category, a, b) ==
                LET ma == Metric(category, a)
                    mb == Metric(category, b)
                IN  \/ ma[1] * mb[2] > mb[1] * ma[2]
                    \/ /\ ma[1] * mb[2] = mb[1] * ma[2]
                       /\ a.review_count >= b.review_count
        IN  \A category \in DOMAIN anomalous_reviewers :
               LET entries == anomalous_reviewers[category]
               IN  /\ Len(entries) <= IF category \in {"extreme_raters", "outlier_reviewers"}
                                      THEN 20 ELSE 15
                   /\ \A k \in 1..(Len(entries) - 1) :
                         InOrder(category, entries[k], entries[k + 1])

\* ------------------------------------------------------------------------
\* The correlation of diversity and review quality (SpecCorr)
\* ------------------------------------------------------------------------

\* C25: _calculate_diversity_correlation reports the correlation of the
\* diversity score with a quality metric whenever at least 10 paired samples
\* exist and the two series have equal length, and does not report it when
\* the lengths differ.
C25_ReportedFromTenSamples ==
    diversity_correlation # <<>> =>
        LET scored  == Len(submission_diversity_data)
            rated   == Cardinality({k \in DOMAIN submission_diversity_data :
                                      submission_diversity_data[k].avg_rating # NoNum})
            metrics == DOMAIN diversity_correlation[1]
        IN  /\ "rating_correlation" \in metrics <=> (rated = scored /\ scored >= 10)
            /\ "consistency_correlation" \in metrics <=> scored >= 10

\* ------------------------------------------------------------------------
\* The metrics by country and by institution type (SpecGroup)
\* ------------------------------------------------------------------------

\* C26: the avg_rating and avg_confidence of a country and of an
\* institution type equal the mean over all the reviews folded into the
\* institutions of the group.
C26_GroupMeanOverAllReviews ==
    DOMAIN country_type # {} =>
        \A grouping \in {"by_country", "by_type"} :
           \A g \in DOMAIN country_type[grouping] :
              LET entry   == country_type[grouping][g]
                  field   == IF grouping = "by_country" THEN "country"
                             ELSE "institution_type"
                  members == SelectSeq(reviewer_side,
                                       LAMBDA m : Or(m[field], "unknown") = entry.group)
                  MeanOfAll(average, values) ==
                      IF values = <<>> THEN average = <<>>
                      ELSE /\ average # <<>>
                           /\ average[1] * Len(values) = Sum(values) * average[2]
              IN  /\ MeanOfAll(entry.avg_rating, extend_all(members, "ratings"))
                  /\ MeanOfAll(entry.avg_confidence, extend_all(members, "confidences"))

\* ------------------------------------------------------------------------
\* The word counts of aggregate (SpecAgg)
\* ------------------------------------------------------------------------

\* the number of word tokens of a text: its maximal runs of word characters
RECURSIVE word_tokens(_)
word_tokens(text) ==
    IF Falsy(text) THEN 0
    ELSE LET rest == From(text, 1)
         IN  (IF /\ CharAt(text, 1) \in WordChars
                 /\ (rest = "" \/ CharAt(rest, 1) \notin WordChars)
              THEN 1 ELSE 0) + word_tokens(rest)

\* the reviews of the submissions aggregate is through, in document order
RECURSIVE reviews_through(_)
reviews_through(n) ==
    IF n = 0 THEN <<>> ELSE reviews_through(n - 1) \o reviews_doc[n].reviews

\* C27: the text_words aggregate records for a review is the number of word
\* tokens of its four sections together (0 for a null or empty section), so
\* a review with prose has a positive text_words.
C27_TextWordsCountsWordTokens ==
    (script = "run_affiliation_analysis" /\ agg_pos >= 0) =>
        \A r \in DOMAIN agg.reviewer_metrics :
           LET own == SelectSeq(reviews_through(agg_pos),
                                LAMBDA rev : reviewer_key(rev) = r)
               recorded == agg.reviewer_metrics[r].text_words
           IN  /\ Len(recorded) = Len(own)
               /\ \A k \in DOMAIN own :
                     recorded[k] = word_tokens(own[k].content.summary)
                                   + word_tokens(own[k].content.strengths)
                                   + word_tokens(own[k].content.weaknesses)
                                   + word_tokens(own[k].content.questions)

\* ------------------------------------------------------------------------
\* The geographical bias (SpecBias)
\* ------------------------------------------------------------------------

\* C28: for every reviewer country with a profile, the bias entry exists
\* exactly when the country gave at least 10 cross-country ratings; its
\* cross-country average is the mean of all these ratings, its home bias
\* score the same-country average minus that mean; a target is listed as
\* biased towards or against exactly with at least 5 ratings toward it and a
\* deviation of at least 0.3 from that mean, each list holding at most 5
\* targets by decreasing magnitude.
C28_BiasOverAllCrossRatings ==
    geographical_bias # <<>> =>
        LET matrix == cross_country[1].cross_country_matrix
            same   == cross_country[1].same_country_reviews
            bias   == geographical_bias[1]
        IN  \A c \in DOMAIN matrix \cap bias_profiles :
               LET given    == extend_all(matrix[c], "ratings")
                   N        == Len(given)
                   own      == Get(same, c, <<>>)
                   own_sum  == Sum([k \in DOMAIN own |-> own[k].rating_sum])
                   Dev(t)   == Sum(t.ratings) * N - Sum(given) * Len(t.ratings)
                   Far(t)   == /\ Len(t.ratings) >= 5
                               /\ 10 * Abs(Dev(t)) >= 3 * Len(t.ratings) * N
                   Names(l) == {l[k].target_country : k \in DOMAIN l}
                   Falling(l) == \A k \in 1..(Len(l) - 1) :
                                    Abs(l[k].difference) >= Abs(l[k + 1].difference)
               IN  /\ c \in DOMAIN bias <=> N >= 10
                   /\ c \in DOMAIN bias =>
                        /\ bias[c].overall_cross_country_avg = RoundRatio(100 * Sum(given), N)
                        /\ own # <<>> =>
                              bias[c].home_bias_score =
                                 <<RoundRatio(100 * (own_sum * N - Sum(given) * 2 * Len(own)),
                                              2 * Len(own) * N)>>
                        /\ Names(bias[c].biased_towards) =
                              {matrix[c][k].target_country :
                                 k \in {j \in DOMAIN matrix[c] :
                                          Far(matrix[c][j]) /\ Dev(matrix[c][j]) > 0}}
                        /\ Names(bias[c].biased_against) =
                              {matrix[c][k].target_country :
                                 k \in {j \in DOMAIN matrix[c] :
                                          Far(matrix[c][j]) /\ Dev(matrix[c][j]) < 0}}
                        /\ Len(bias[c].biased_towards) <= 5
                        /\ Len(bias[c].biased_against) <= 5
                        /\ Falling(bias[c].biased_towards)
                        /\ Falling(bias[c].biased_against)

\* ------------------------------------------------------------------------
\* The submission anomalies (SpecSub)
\* ------------------------------------------------------------------------

C30_AtMostFiveCallsNeverRaises ==
    [][ /\ api_calls' <= 5
        /\ retry_pc' # "raised"
        /\ (retry_pc = "calling" /\ api_calls' = api_calls + 1) =>
              \/ retry_pc' = "returned" /\ retry_result' # <<>>
              \/ /\ retry_pc' = "sleeping"
                 /\ \E e \in ApiErrors : e.rate_limit /\ e.text = error_str'
        /\ (retry_pc = "sleeping" /\ retry_pc' = "returned") =>
              api_calls = 5 /\ retry_result' = << <<>> >>
        /\ retry_pc = "returned" => UNCHANGED retryVars
      ]_vars
====
